---- MODULE Spec2Model ----
(***************************************************************************)
(* pdf-formbot: the analysis batch (src/src/analyze.ts, second listing,    *)
(* lines 497-1094) and the evaluation batch (src/unnamed/part_000).        *)
(*                                                                         *)
(* Text is held as TLA+ strings, one character per position, so trimming,  *)
(* lower-casing and substring tests are computed as the code computes them.*)
(* Numbers of the oracle's reply are held in hundredths (0.5 is 50).       *)
(***************************************************************************)
EXTENDS Integers, Sequences, FiniteSets, TLC

(***************************************************************************)
(* String primitives of the JavaScript runtime.                            *)
(***************************************************************************)

UpperLetters == "ABCDEFGHIJKLMNOPQRSTUVWXYZ"

LowerLetters == "abcdefghijklmnopqrstuvwxyz"

WhiteSpace == {" ", "\t", "\n", "\r"}

CharAt(s, k) == SubSeq(s, k, k)

LowerChar(c) ==
    IF \E k \in 1..Len(UpperLetters) : CharAt(UpperLetters, k) = c
    THEN CharAt(LowerLetters, CHOOSE k \in 1..Len(UpperLetters) : CharAt(UpperLetters, k) = c)
    ELSE c

RECURSIVE toLowerCase(_)
toLowerCase(s) ==
    IF Len(s) = 0 THEN ""
    ELSE LowerChar(CharAt(s, 1)) \o toLowerCase(SubSeq(s, 2, Len(s)))

RECURSIVE trimStart(_)
trimStart(s) ==
    IF Len(s) > 0 /\ CharAt(s, 1) \in WhiteSpace
    THEN trimStart(SubSeq(s, 2, Len(s)))
    ELSE s

RECURSIVE trimEnd(_)
trimEnd(s) ==
    IF Len(s) > 0 /\ CharAt(s, Len(s)) \in WhiteSpace
    THEN trimEnd(SubSeq(s, 1, Len(s) - 1))
    ELSE s

trim(s) == trimEnd(trimStart(s))

\* String.prototype.includes
includes(s, sub) ==
    \E k \in 1..(Len(s) - Len(sub) + 1) : SubSeq(s, k, k + Len(sub) - 1) = sub

\* String.prototype.indexOf from position `from` (1-based); 0 when absent
indexOfFrom(s, sub, from) ==
    IF \E k \in from..(Len(s) - Len(sub) + 1) : SubSeq(s, k, k + Len(sub) - 1) = sub
    THEN CHOOSE k \in from..(Len(s) - Len(sub) + 1) :
            /\ SubSeq(s, k, k + Len(sub) - 1) = sub
            /\ \A j \in from..(k - 1) : SubSeq(s, j, j + Len(sub) - 1) # sub
    ELSE 0

lastIndexOf(s, sub) ==
    IF includes(s, sub)
    THEN CHOOSE k \in 1..(Len(s) - Len(sub) + 1) :
            /\ SubSeq(s, k, k + Len(sub) - 1) = sub
            /\ \A j \in (k + 1)..(Len(s) - Len(sub) + 1) : SubSeq(s, j, j + Len(sub) - 1) # sub
    ELSE 0

(***************************************************************************)
(* JavaScript values as JSON.parse produces them.  t is the typeof tag     *)
(* ("null" and "array" told apart from other objects), b, n, s hold the    *)
(* payload of a boolean, a number (in hundredths) and a string.            *)
(***************************************************************************)

Undefined == [t |-> "undefined", b |-> FALSE, n |-> 0, s |-> ""]

Null == [t |-> "null", b |-> FALSE, n |-> 0, s |-> ""]

Bool(v) == [t |-> "boolean", b |-> v, n |-> 0, s |-> ""]

Num(v) == [t |-> "number", b |-> FALSE, n |-> v, s |-> ""]

Str(v) == [t |-> "string", b |-> FALSE, n |-> 0, s |-> v]

EmptyObject == [t |-> "object", b |-> FALSE, n |-> 0, s |-> ""]

\* Boolean(v) and the truthiness test of !v, v || d
Truthy(v) ==
    CASE v.t = "undefined" -> FALSE
      [] v.t = "null" -> FALSE
      [] v.t = "boolean" -> v.b
      [] v.t = "number" -> v.n # 0
      [] v.t = "string" -> Len(v.s) > 0
      [] OTHER -> TRUE

\* the value of parsed.sensitiveInfo: its own tag and its five properties
SensitiveValue(tag, ssn, dl, fin, health, crim) ==
    [t |-> tag, ssn |-> ssn, driversLicense |-> dl, financial |-> fin,
     health |-> health, criminalHistory |-> crim]

NoSensitive(tag) ==
    SensitiveValue(tag, Undefined, Undefined, Undefined, Undefined, Undefined)

\* a parsed reply: its own tag and the properties the normalizer reads
\* (a property that is absent reads as undefined)
ParsedValue(tag, isForm, formType, sens, conf, pages, notes) ==
    [t |-> tag, isForm |-> isForm, formType |-> formType, sensitiveInfo |-> sens,
     confidence |-> conf, pageCount |-> pages, notes |-> notes]

\* a value without any of the properties: null, an array, {}, a number
Bare(tag) ==
    ParsedValue(tag, Undefined, Undefined, NoSensitive("undefined"),
                Undefined, Undefined, Undefined)

\* parsed.sensitiveInfo?.field
OptionalField(sens, field) ==
    IF sens.t \in {"undefined", "null"} THEN Undefined ELSE sens[field]

(***************************************************************************)
(* Results of a call that may throw: err is the message of the exception   *)
(* ("" when the call returned), v the returned value.                      *)
(***************************************************************************)

Returned(v) == [err |-> "", v |-> v]

Thrown(msg, dflt) == [err |-> msg, v |-> dflt]

(***************************************************************************)
(* The canonical form types (analyze.ts, FormAnalysis.formType).           *)
(***************************************************************************)

FORM_TYPES ==
    {"Fillable PDF", "Non-Fillable PDF", "Google form", "MS Office form",
     "MS Word document", "Airtable form", "Phone", "Email"}

CanonicalFormTypes == FORM_TYPES \cup {"N/A", "Unknown"}

(***************************************************************************)
(* FormAnalyzer.normalizeFormType (analyze.ts).  The argument is whatever  *)
(* parsed.formType holds; a truthy value that is no string has no          *)
(* toLowerCase method, and the call throws a TypeError.                    *)
(***************************************************************************)

\* faulty variant of the rules: the non-fillable rule is tried before the
\* fillable-and-pdf rule
formTypeRulesNonFillableFirst(normalized) ==
    IF includes(normalized, "non-fillable") \/ includes(normalized, "nonfillable")
        THEN "Non-Fillable PDF"
    ELSE IF includes(normalized, "fillable") /\ includes(normalized, "pdf")
        THEN "Fillable PDF"
    ELSE IF includes(normalized, "google") THEN "Google form"
    ELSE IF includes(normalized, "airtable") THEN "Airtable form"
    ELSE IF includes(normalized, "office") \/ includes(normalized, "excel")
        THEN "MS Office form"
    ELSE IF includes(normalized, "word") THEN "MS Word document"
    ELSE IF includes(normalized, "phone") THEN "Phone"
    ELSE IF includes(normalized, "email") THEN "Email"
    ELSE IF includes(normalized, "digital") \/ includes(normalized, "printable")
        THEN "Non-Fillable PDF"
    ELSE IF normalized = "n/a" \/ normalized = "not a form" THEN "N/A"
    ELSE IF includes(normalized, "pdf") THEN "Non-Fillable PDF"
    ELSE "Unknown"

\* faulty variant of the rules: text that no rule matches is handed back
formTypeRulesKeepRaw(normalized) ==
    IF includes(normalized, "fillable") /\ includes(normalized, "pdf")
        THEN "Fillable PDF"
    ELSE IF includes(normalized, "non-fillable") \/ includes(normalized, "nonfillable")
        THEN "Non-Fillable PDF"
    ELSE IF includes(normalized, "google") THEN "Google form"
    ELSE IF includes(normalized, "airtable") THEN "Airtable form"
    ELSE IF includes(normalized, "office") \/ includes(normalized, "excel")
        THEN "MS Office form"
    ELSE IF includes(normalized, "word") THEN "MS Word document"
    ELSE IF includes(normalized, "phone") THEN "Phone"
    ELSE IF includes(normalized, "email") THEN "Email"
    ELSE IF includes(normalized, "digital") \/ includes(normalized, "printable")
        THEN "Non-Fillable PDF"
    ELSE IF normalized = "n/a" \/ normalized = "not a form" THEN "N/A"
    ELSE IF includes(normalized, "pdf") THEN "Non-Fillable PDF"
    ELSE normalized

\* the keyword rules, in the order of the source, on the lower-cased trimmed text
formTypeRules(normalized) ==
    IF includes(normalized, "fillable") /\ includes(normalized, "pdf")
        THEN "Fillable PDF"
    ELSE IF includes(normalized, "non-fillable") \/ includes(normalized, "nonfillable")
        THEN "Non-Fillable PDF"
    ELSE IF includes(normalized, "google") THEN "Google form"
    ELSE IF includes(normalized, "airtable") THEN "Airtable form"
    ELSE IF includes(normalized, "office") \/ includes(normalized, "excel")
        THEN "MS Office form"
    ELSE IF includes(normalized, "word") THEN "MS Word document"
    ELSE IF includes(normalized, "phone") THEN "Phone"
    ELSE IF includes(normalized, "email") THEN "Email"
    ELSE IF includes(normalized, "digital") \/ includes(normalized, "printable")
        THEN "Non-Fillable PDF"
    ELSE IF normalized = "n/a" \/ normalized = "not a form" THEN "N/A"
    ELSE IF includes(normalized, "pdf") THEN "Non-Fillable PDF"
    ELSE "Unknown"

normalizeFormType(type) ==
    IF ~Truthy(type) THEN Returned("N/A")
    ELSE IF type.t # "string" THEN Thrown("type.toLowerCase is not a function", "")
    ELSE Returned(formTypeRules(trim(toLowerCase(type.s))))

(***************************************************************************)
(* FormAnalyzer.normalizeResponse (analyze.ts).                            *)
(***************************************************************************)

SensitiveNames == <<"ssn", "driversLicense", "financial", "health", "criminalHistory">>

SensitiveLabels == <<"SSN", "DL#", "Financial", "Health", "Criminal">>

\* the names of the five sensitivity flags
FlagNames == {SensitiveNames[k] : k \in 1..Len(SensitiveNames)}

NoFlags ==
    [ssn |-> FALSE, driversLicense |-> FALSE, financial |-> FALSE,
     health |-> FALSE, criminalHistory |-> FALSE]

\* faulty variant of the flags: a field that is present counts as set
sensitiveFlagsPresent(parsed) ==
    [ssn |-> OptionalField(parsed.sensitiveInfo, "ssn") # Undefined,
     driversLicense |-> OptionalField(parsed.sensitiveInfo, "driversLicense") # Undefined,
     financial |-> OptionalField(parsed.sensitiveInfo, "financial") # Undefined,
     health |-> OptionalField(parsed.sensitiveInfo, "health") # Undefined,
     criminalHistory |-> OptionalField(parsed.sensitiveInfo, "criminalHistory") # Undefined]

sensitiveFlags(parsed) ==
    [ssn |-> Truthy(OptionalField(parsed.sensitiveInfo, "ssn")),
     driversLicense |-> Truthy(OptionalField(parsed.sensitiveInfo, "driversLicense")),
     financial |-> Truthy(OptionalField(parsed.sensitiveInfo, "financial")),
     health |-> Truthy(OptionalField(parsed.sensitiveInfo, "health")),
     criminalHistory |-> Truthy(OptionalField(parsed.sensitiveInfo, "criminalHistory"))]

\* items.join(", ") over the labels of the flags that are set, from label k on
RECURSIVE joinItems(_, _, _)
joinItems(info, k, first) ==
    IF k > Len(SensitiveNames) THEN ""
    ELSE IF info[SensitiveNames[k]]
         THEN (IF first THEN "" ELSE ", ") \o SensitiveLabels[k] \o joinItems(info, k + 1, FALSE)
         ELSE joinItems(info, k + 1, first)

anyFlag(info) == \E k \in 1..Len(SensitiveNames) : info[SensitiveNames[k]]

sensitiveSummary(info) == IF anyFlag(info) THEN joinItems(info, 1, TRUE) ELSE "None"

\* faulty variant of the isForm test: letter case and outer white space ignored
normalizeIsFormAnyCase(parsed) ==
    IF parsed.isForm.t = "string" /\ trim(toLowerCase(parsed.isForm.s)) = "yes"
    THEN "Yes" ELSE "No"

\* parsed.isForm === "Yes" ? "Yes" : "No"
normalizeIsForm(parsed) == IF parsed.isForm = Str("Yes") THEN "Yes" ELSE "No"

\* faulty variant: parsed.confidence || 0.5, which replaces a zero as well
numberOrDefault(v, dflt) == IF v.t = "number" /\ v.n # 0 THEN v.n ELSE dflt

\* typeof v === "number" ? v : dflt
numberOr(v, dflt) == IF v.t = "number" THEN v.n ELSE dflt

DefaultConfidence == 50

DefaultPageCount == 0

valueOr(v, dflt) == IF Truthy(v) THEN v ELSE dflt

\* the fragment of a record that normalizeResponse returns, when it returns
Fragment(isForm, formType, info, summary, conf, pages, notes) ==
    [isForm |-> isForm, formType |-> formType, sensitiveInfo |-> info,
     sensitiveInfoSummary |-> summary, confidence |-> conf, pageCount |-> pages,
     notes |-> notes]

NoFragment == Fragment("", Str(""), NoFlags, "", 0, 0, Str(""))

\* reading a property of null throws before anything is built
normalizeResponse(parsed) ==
    IF parsed.t = "null"
    THEN Thrown("Cannot read properties of null (reading 'sensitiveInfo')", NoFragment)
    ELSE LET info == sensitiveFlags(parsed)
             ft == normalizeFormType(parsed.formType)
         IN  IF ft.err # "" THEN Thrown(ft.err, NoFragment)
             ELSE Returned(Fragment(normalizeIsForm(parsed), Str(ft.v), info,
                                    sensitiveSummary(info),
                                    numberOr(parsed.confidence, DefaultConfidence),
                                    numberOr(parsed.pageCount, DefaultPageCount),
                                    valueOr(parsed.notes, Str(""))))

(***************************************************************************)
(* FormAnalyzer.normalizeResponse of the evaluation script (part_000): the *)
(* form type is kept as the oracle gave it, and the record has no summary, *)
(* confidence or page count.                                               *)
(***************************************************************************)

EvalFragment(isForm, formType, info, notes) ==
    [isForm |-> isForm, formType |-> formType, sensitiveInfo |-> info, notes |-> notes]

NoEvalFragment == EvalFragment("", Str(""), NoFlags, Str(""))

evalNormalizeResponse(parsed) ==
    IF parsed.t = "null"
    THEN Thrown("Cannot read properties of null (reading 'isForm')", NoEvalFragment)
    ELSE Returned(EvalFragment(normalizeIsForm(parsed),
                               valueOr(parsed.formType, Str("N/A")),
                               sensitiveFlags(parsed),
                               valueOr(parsed.notes, Str(""))))

(***************************************************************************)
(* Reply parsing of analyzePdf: the two regular expressions and JSON.parse.*)
(* A TLA+ string cannot hold a backtick, so "~" stands for it in reply     *)
(* texts and in the fence markers.                                         *)
(***************************************************************************)

FenceOpen == "~~~json"

FenceClose == "~~~"

\* text.match(/```json\s*([\s\S]*?)\s*```/): the text after the first opening
\* fence and its white space, up to the white space before the next fence
fencedJson(text) ==
    LET p == indexOfFrom(text, FenceOpen, 1)
        rest == trimStart(SubSeq(text, p + Len(FenceOpen), Len(text)))
        q == indexOfFrom(rest, FenceClose, 1)
    IN  IF p = 0 \/ q = 0 THEN [found |-> FALSE, group |-> ""]
        ELSE [found |-> TRUE, group |-> trimEnd(SubSeq(rest, 1, q - 1))]

\* text.match(/\{[\s\S]*\}/): greedy, from the first "{" to the last "}"
braceSpan(text) ==
    LET a == indexOfFrom(text, "{", 1)
        b == lastIndexOf(text, "}")
    IN  IF a = 0 \/ b < a THEN [found |-> FALSE, group |-> ""]
        ELSE [found |-> TRUE, group |-> SubSeq(text, a, b)]

\* The JSON documents of the model and the values JSON.parse gives for them.
JsonDocuments ==
    { [text |-> "{\"isForm\":\"Yes\",\"formType\":\"Fillable PDF\",\"sensitiveInfo\":{\"ssn\":true,\"driversLicense\":0,\"financial\":\"yes\",\"health\":null},\"confidence\":0.9,\"pageCount\":2,\"notes\":\"w-9\"}",
       value |-> ParsedValue("object", Str("Yes"), Str("Fillable PDF"),
                             SensitiveValue("object", Bool(TRUE), Num(0), Str("yes"), Null, Undefined),
                             Num(90), Num(200), Str("w-9"))],
      [text |-> "{\"isForm\":\"Yes\",\"formType\":\"Non-Fillable PDF\"}",
       value |-> ParsedValue("object", Str("Yes"), Str("Non-Fillable PDF"), NoSensitive("undefined"),
                             Undefined, Undefined, Undefined)],
      [text |-> "{\"isForm\":\"yes\",\"formType\":\"custom survey\",\"sensitiveInfo\":null}",
       value |-> ParsedValue("object", Str("yes"), Str("custom survey"), NoSensitive("null"),
                             Undefined, Undefined, Undefined)],
      [text |-> "{\"isForm\":\"Yes\",\"formType\":5}",
       value |-> ParsedValue("object", Str("Yes"), Num(500), NoSensitive("undefined"),
                             Undefined, Undefined, Undefined)],
      [text |-> "{\"isForm\":\"No\",\"notes\":7}",
       value |-> ParsedValue("object", Str("No"), Undefined, NoSensitive("undefined"),
                             Undefined, Undefined, Num(700))],
      [text |-> "{}", value |-> Bare("object")],
      [text |-> "null", value |-> Bare("null")],
      [text |-> "[]", value |-> Bare("array")] }

\* JSON.parse: white space around the document is allowed; every other text
\* of the model is no JSON document and raises a SyntaxError
JSONparse(text) ==
    IF \E d \in JsonDocuments : d.text = trim(text)
    THEN Returned((CHOOSE d \in JsonDocuments : d.text = trim(text)).value)
    ELSE Thrown("Unexpected token in JSON", Bare("undefined"))

\* the texts response.text may hold
Replies ==
    { FenceOpen \o "\n" \o d.text \o "\n" \o FenceClose : d \in JsonDocuments }
    \cup { "Here you go: {\"isForm\":\"No\",\"notes\":7} Hope it helps.",
           "{} or maybe {\"isForm\":\"Yes\",\"formType\":5}",
           "Sorry, I cannot read this file.",
           "",
           FenceOpen \o "\n{isForm: Yes}\n" \o FenceClose,
           FenceOpen \o " {}" }

\* lines 772-784 of analyzePdf: the parsed value, or the exception
extractJson(text) ==
    LET jsonMatch == fencedJson(text)
        directMatch == braceSpan(text)
    IN  IF ~jsonMatch.found
        THEN IF ~directMatch.found
             THEN Thrown("Could not parse JSON from response", Bare("undefined"))
             ELSE JSONparse(directMatch.group)
        ELSE JSONparse(jsonMatch.group)

(***************************************************************************)
(* The comparator of the evaluation script (part_000).                     *)
(***************************************************************************)

\* normalizeFormType of part_000; the machine side passes llm.formType, which
\* normalizeResponse left as the oracle gave it
evalNormalizeFormType(type) ==
    IF ~Truthy(type) THEN Returned("")
    ELSE IF type.t # "string" THEN Thrown("type.toLowerCase is not a function", "")
    ELSE LET t == trim(toLowerCase(type.s))
         IN  IF includes(t, "fillable") THEN Returned("Fillable PDF")
             ELSE IF includes(t, "non-fillable") \/ includes(t, "nonfillable")
                  THEN Returned("Non-Fillable PDF")
             ELSE IF t = "n/a" \/ t = "na" THEN Returned("N/A")
             ELSE Returned(type.s)

formatSensitiveInfo(info) == IF anyFlag(info) THEN joinItems(info, 1, TRUE) ELSE "No"

\* faulty variant of the sensitivity rule: only a plain "yes" reaches the
\* presence tier, an item list falls through to the equality tier
normalizeSensitiveYesOnly(human, llm) ==
    LET humanLower == trim(toLowerCase(human))
        llmLower == trim(toLowerCase(llm))
    IN  IF humanLower = "no" \/ humanLower = ""
        THEN llmLower = "no" \/ llmLower = ""
        ELSE IF humanLower = "yes"
             THEN llmLower # "no" /\ llmLower # ""
             ELSE humanLower = llmLower

normalizeSensitiveForComparison(human, llm) ==
    LET humanLower == trim(toLowerCase(human))
        llmLower == trim(toLowerCase(llm))
    IN  IF humanLower = "no" \/ humanLower = ""
        THEN llmLower = "no" \/ llmLower = ""
        ELSE IF humanLower = "yes" \/ includes(humanLower, "ssn") \/ includes(humanLower, "dl")
             THEN llmLower # "no" /\ llmLower # ""
             ELSE humanLower = llmLower

HumanReview(url, isForm, formType, sens, reviewer, notes) ==
    [url |-> url, isForm |-> isForm, formType |-> formType, sensitiveInfo |-> sens,
     reviewer |-> reviewer, notes |-> notes]

NoComparison ==
    [url |-> "", humanIsForm |-> "", llmIsForm |-> "", isFormMatch |-> FALSE,
     humanFormType |-> "", llmFormType |-> Str(""), formTypeMatch |-> FALSE,
     humanSensitive |-> "", llmSensitive |-> "", sensitiveMatch |-> FALSE,
     allMatch |-> FALSE, humanReviewer |-> "", humanNotes |-> "", llmNotes |-> Str("")]

\* faulty variant of compare: the form types must agree even when both sides
\* say the document is no form
compareWithoutOverride(human, llm) ==
    LET humanFormType == evalNormalizeFormType(Str(human.formType))
        llmFormType == evalNormalizeFormType(llm.formType)
        llmSensitive == formatSensitiveInfo(llm.sensitiveInfo)
        isFormMatch == toLowerCase(human.isForm) = toLowerCase(llm.isForm)
        formTypeMatch == toLowerCase(humanFormType.v) = toLowerCase(llmFormType.v)
        sensitiveMatch == normalizeSensitiveForComparison(human.sensitiveInfo, llmSensitive)
    IN  IF llmFormType.err # "" THEN Thrown(llmFormType.err, NoComparison)
        ELSE Returned(
            [url |-> human.url, humanIsForm |-> human.isForm, llmIsForm |-> llm.isForm,
             isFormMatch |-> isFormMatch, humanFormType |-> human.formType,
             llmFormType |-> llm.formType, formTypeMatch |-> formTypeMatch,
             humanSensitive |-> human.sensitiveInfo, llmSensitive |-> llmSensitive,
             sensitiveMatch |-> sensitiveMatch,
             allMatch |-> isFormMatch /\ formTypeMatch /\ sensitiveMatch,
             humanReviewer |-> human.reviewer, humanNotes |-> human.notes,
             llmNotes |-> llm.notes])

compare(human, llm) ==
    LET humanFormType == evalNormalizeFormType(Str(human.formType))
        llmFormType == evalNormalizeFormType(llm.formType)
        llmSensitive == formatSensitiveInfo(llm.sensitiveInfo)
        isFormMatch == toLowerCase(human.isForm) = toLowerCase(llm.isForm)
        formTypeMatch ==
            \/ toLowerCase(humanFormType.v) = toLowerCase(llmFormType.v)
            \/ (toLowerCase(human.isForm) = "no" /\ llm.isForm = "No")
        sensitiveMatch == normalizeSensitiveForComparison(human.sensitiveInfo, llmSensitive)
    IN  IF llmFormType.err # "" THEN Thrown(llmFormType.err, NoComparison)
        ELSE Returned(
            [url |-> human.url, humanIsForm |-> human.isForm, llmIsForm |-> llm.isForm,
             isFormMatch |-> isFormMatch, humanFormType |-> human.formType,
             llmFormType |-> llm.formType, formTypeMatch |-> formTypeMatch,
             humanSensitive |-> human.sensitiveInfo, llmSensitive |-> llmSensitive,
             sensitiveMatch |-> sensitiveMatch,
             allMatch |-> isFormMatch /\ formTypeMatch /\ sensitiveMatch,
             humanReviewer |-> human.reviewer, humanNotes |-> human.notes,
             llmNotes |-> llm.notes])

(***************************************************************************)
(* Reading the input list (readUrlsFromFile of analyze.ts).                *)
(***************************************************************************)
\* content.split("\n")
RECURSIVE splitLines(_)
splitLines(content) ==
    LET k == indexOfFrom(content, "\n", 1)
    IN  IF k = 0 THEN <<content>>
        ELSE <<SubSeq(content, 1, k - 1)>>
             \o splitLines(SubSeq(content, k + 1, Len(content)))

\* [...new Set(list)]: each value once, where it first appears
RECURSIVE uniqueInOrder(_)
uniqueInOrder(list) ==
    IF Len(list) = 0 THEN <<>>
    ELSE LET front == uniqueInOrder(SubSeq(list, 1, Len(list) - 1))
             last == list[Len(list)]
         IN  IF \E k \in DOMAIN front : front[k] = last THEN front
             ELSE Append(front, last)

\* the characters the class [^\s,"'<>] of urlPattern leaves out
UrlStops == WhiteSpace \cup {",", "\"", "'", "<", ">"}

\* line.match(urlPattern) from position k on: http:// or https:// in any
\* case, then the longest run of admitted characters that ends in .pdf
RECURSIVE matchPdfUrls(_, _)
matchPdfUrls(line, k) ==
    IF k > Len(line) THEN <<>>
    ELSE LET lower == toLowerCase(line)
             scheme == IF k + 6 <= Len(line) /\ SubSeq(lower, k, k + 6) = "http://"
                       THEN 7
                       ELSE IF k + 7 <= Len(line) /\ SubSeq(lower, k, k + 7) = "https://"
                       THEN 8 ELSE 0
             body == k + scheme
             ends == { e \in (body + 4)..Len(line) :
                         /\ SubSeq(lower, e - 3, e) = ".pdf"
                         /\ \A j \in body..e : CharAt(line, j) \notin UrlStops }
         IN  IF scheme = 0 \/ ends = {} THEN matchPdfUrls(line, k + 1)
             ELSE LET e == CHOOSE e \in ends : \A o \in ends : o <= e
                  IN  <<SubSeq(line, k, e)>> \o matchPdfUrls(line, e + 1)

RECURSIVE flatten(_)
flatten(lists) ==
    IF Len(lists) = 0 THEN <<>> ELSE Head(lists) \o flatten(Tail(lists))

keptLine(trimmed) == trimmed # "" /\ CharAt(trimmed, 1) # "#"

\* readUrlsFromFile without the final Set: a line read twice is kept twice
readUrlsFromFileKeepDuplicates(filePath, content) ==
    LET lines == splitLines(content)
        isTxt == LET low == toLowerCase(filePath)
                 IN  Len(low) >= 4 /\ SubSeq(low, Len(low) - 3, Len(low)) = ".txt"
    IN  IF isTxt
        THEN SelectSeq([k \in DOMAIN lines |-> trim(lines[k])], keptLine)
        ELSE flatten([k \in DOMAIN lines |-> matchPdfUrls(lines[k], 1)])

readUrlsFromFile(filePath, content) ==
    LET lines == splitLines(content)
        isTxt == LET low == toLowerCase(filePath)
                 IN  Len(low) >= 4 /\ SubSeq(low, Len(low) - 3, Len(low)) = ".txt"
    IN  uniqueInOrder(
            IF isTxt
            THEN SelectSeq([k \in DOMAIN lines |-> trim(lines[k])], keptLine)
            ELSE flatten([k \in DOMAIN lines |-> matchPdfUrls(lines[k], 1)]))

(***************************************************************************)
(* The report writers (writeResultsCsv of analyze.ts, writeComparisonCsv   *)
(* of part_000) and the CSV reading of csv-parse that parseHumanReviews    *)
(* relies on.                                                              *)
(***************************************************************************)

Quote == "\""

\* value.replace(/"/g, '""')
RECURSIVE doubleQuotes(_)
doubleQuotes(s) ==
    IF Len(s) = 0 THEN ""
    ELSE (IF CharAt(s, 1) = Quote THEN Quote \o Quote ELSE CharAt(s, 1))
         \o doubleQuotes(SubSeq(s, 2, Len(s)))

\* faulty variant of escapeField: the field is quoted, its quotes are not doubled
escapeFieldNoDoubling(value) ==
    IF includes(value, ",") \/ includes(value, Quote) \/ includes(value, "\n")
       \/ includes(value, "\r")
    THEN Quote \o value \o Quote
    ELSE value

\* escapeField of both writers
escapeField(value) ==
    IF includes(value, ",") \/ includes(value, Quote) \/ includes(value, "\n")
       \/ includes(value, "\r")
    THEN Quote \o doubleQuotes(value) \o Quote
    ELSE value

\* the text between the quotes of a quoted field, read back: a doubled quote
\* is one quote, a single quote inside is an error
RECURSIVE undoubleQuotes(_)
undoubleQuotes(s) ==
    IF Len(s) = 0 THEN Returned("")
    ELSE IF CharAt(s, 1) # Quote
    THEN LET rest == undoubleQuotes(SubSeq(s, 2, Len(s)))
         IN  IF rest.err # "" THEN rest ELSE Returned(CharAt(s, 1) \o rest.v)
    ELSE IF Len(s) >= 2 /\ CharAt(s, 2) = Quote
    THEN LET rest == undoubleQuotes(SubSeq(s, 3, Len(s)))
         IN  IF rest.err # "" THEN rest ELSE Returned(Quote \o rest.v)
    ELSE Thrown("Invalid Closing Quote", "")

\* one CSV field read back (RFC 4180, as csv-parse reads it)
csvUnescape(field) ==
    IF Len(field) >= 1 /\ CharAt(field, 1) = Quote
    THEN IF Len(field) >= 2 /\ CharAt(field, Len(field)) = Quote
         THEN undoubleQuotes(SubSeq(field, 2, Len(field) - 1))
         ELSE Thrown("Quote Not Closed", "")
    ELSE IF includes(field, Quote) THEN Thrown("Invalid Opening Quote", "")
    ELSE Returned(field)

\* Number.prototype.toString of a non-negative integer
Digits == "0123456789"

RECURSIVE natToString(_)
natToString(n) ==
    IF n < 10 THEN CharAt(Digits, n + 1)
    ELSE natToString(n \div 10) \o CharAt(Digits, (n % 10) + 1)

absolute(n) == IF n < 0 THEN -n ELSE n

signOf(n) == IF n < 0 THEN "-" ELSE ""

\* toString of an integer (fileSizeKB, processingTimeSec)
intToString(n) == signOf(n) \o natToString(absolute(n))

\* toFixed(2) of a number held in hundredths
toFixed2(h) ==
    signOf(h) \o natToString(absolute(h) \div 100) \o "."
    \o natToString((absolute(h) % 100) \div 10) \o natToString(absolute(h) % 10)

\* toString of a number held in hundredths
numToString(h) ==
    LET a == absolute(h)
    IN  signOf(h) \o natToString(a \div 100)
        \o (IF a % 100 = 0 THEN ""
            ELSE "." \o natToString((a % 100) \div 10)
                 \o (IF a % 10 = 0 THEN "" ELSE natToString(a % 10)))

\* row.join(",")
RECURSIVE joinFields(_)
joinFields(row) ==
    IF Len(row) = 0 THEN ""
    ELSE IF Len(row) = 1 THEN row[1]
    ELSE row[1] \o "," \o joinFields(Tail(row))

yesNo(b) == IF b THEN "Yes" ELSE "No"

\* the check mark and the cross of the comparison report; "Y" and "N" stand
\* for the two symbols, which a TLA+ string cannot hold
matchMark(b) == IF b THEN "Y" ELSE "N"

modelName == "gemini-2.5-flash"

\* writeResultsCsv: the header fields and the fields of one data row
analysisHeaders ==
    <<"url", "Review: Is this a form", "Reviewer: Form Type",
      "Reviewer: Does this form ask for SSN, DL#, financial, health info or criminal history?",
      "Reviewer: Revisit for further review (optional)", "Reviewer: Notes (optional)",
      "Review: Reviewed by", "Confidence", "Page Count", "File Size (KB)",
      "Processing Time (sec)", "SSN", "Driver's License", "Financial", "Health",
      "Criminal History", "Sensitive Info Summary", "Error">>

analysisHeaderLine ==
    joinFields([k \in DOMAIN analysisHeaders |-> escapeField(analysisHeaders[k])])

analysisRow(r) ==
    <<escapeField(r.url),
      r.isForm,
      r.formType.s,
      IF r.sensitiveInfoSummary # "None" THEN "Yes" ELSE "No",
      IF r.confidence < 70 THEN "checked" ELSE "",
      escapeField(valueOr(r.notes, Str("")).s),
      modelName,
      toFixed2(r.confidence),
      numToString(r.pageCount),
      intToString(r.fileSizeKB),
      intToString(r.processingTimeSec),
      yesNo(r.sensitiveInfo.ssn),
      yesNo(r.sensitiveInfo.driversLicense),
      yesNo(r.sensitiveInfo.financial),
      yesNo(r.sensitiveInfo.health),
      yesNo(r.sensitiveInfo.criminalHistory),
      escapeField(r.sensitiveInfoSummary),
      escapeField(valueOr(r.error, Str("")).s)>>

\* writeComparisonCsv: the header fields, joined as they are, and one data row
comparisonHeaders ==
    <<"URL", "All Match", "Human: Is Form", "LLM: Is Form", "Is Form Match",
      "Human: Form Type", "LLM: Form Type", "Form Type Match", "Human: Sensitive",
      "LLM: Sensitive", "Sensitive Match", "Human Reviewer", "Human Notes", "LLM Notes">>

comparisonHeaderLine == joinFields(comparisonHeaders)

comparisonRow(r) ==
    <<escapeField(r.url),
      matchMark(r.allMatch),
      r.humanIsForm,
      r.llmIsForm,
      matchMark(r.isFormMatch),
      escapeField(r.humanFormType),
      escapeField(r.llmFormType.s),
      matchMark(r.formTypeMatch),
      escapeField(r.humanSensitive),
      escapeField(r.llmSensitive),
      matchMark(r.sensitiveMatch),
      escapeField(r.humanReviewer),
      escapeField(r.humanNotes),
      escapeField(r.llmNotes.s)>>

\* the number of fields a CSV reader finds in one row: the commas outside
\* quoted text separate them.  scanCommas reads a piece of the row and gives
\* the commas it counts when the piece starts outside quotes (out) and inside
\* quotes (in), and whether the piece holds an odd number of quotes (flip);
\* the row is read in halves to keep the evaluation shallow.
RECURSIVE scanCommas(_)
scanCommas(line) ==
    IF Len(line) = 0 THEN [out |-> 0, in |-> 0, flip |-> FALSE]
    ELSE IF Len(line) = 1
    THEN [out |-> IF line = "," THEN 1 ELSE 0, in |-> 0, flip |-> line = Quote]
    ELSE LET half == Len(line) \div 2
             a == scanCommas(SubSeq(line, 1, half))
             b == scanCommas(SubSeq(line, half + 1, Len(line)))
         IN  [out |-> a.out + (IF a.flip THEN b.in ELSE b.out),
              in |-> a.in + (IF a.flip THEN b.out ELSE b.in),
              flip |-> a.flip # b.flip]

csvFieldCount(line) == 1 + scanCommas(line).out

(***************************************************************************)
(* The batch: FormAnalyzer.analyzeAll of analyze.ts (mode "analyze") and   *)
(* the loop of main in part_000 (mode "eval"), each around analyzePdf.     *)
(* An action is the code that runs between two awaits: it takes the        *)
(* outcome of the awaited call and runs up to the next call it issues.     *)
(***************************************************************************)

VARIABLES
    mode,          \* "analyze" or "eval": which script runs
    urls,          \* analyzeAll's argument
    humanReviews,  \* the reviews parseHumanReviews returned
    i,             \* the loop index (0-based, as in the source)
    pc,            \* the await the batch is suspended at
    result,        \* analyzePdf's result record
    results,       \* analyzeAll's results array
    comparisons,   \* main's comparisons array (eval)
    file,          \* getFile, the last polled state of the uploaded file
    fileSizeKB,    \* uploadPdfFromUrl's fileSizeKB
    attempts,      \* the polling loop's counter
    failed,        \* history: the step of the document in hand that failed
    inflight,      \* history: indexes with a call issued and no record appended
    calls,         \* history: calls issued for the document in hand, by kind
    uncaught,      \* the function an exception escaped from, "" when none
    parsed,        \* history: what JSON.parse returned for the document in hand
    fn, arg, ret,  \* a direct call of one of the pure functions
    reports,       \* what main has written after the batch
    env,           \* the process environment: API key, argv, the files that exist
    args,          \* main's args
    customPrompt,  \* main's customPrompt
    exitCode,      \* the code the process ends with
    logBuffer,     \* analyze.ts: the messages pushed by log and logError
    printed,       \* history: what went to the terminal, and through which function
    transcript     \* the log file written by writeLogFile

batchVars ==
    <<i, pc, result, results, comparisons, file, fileSizeKB, attempts, failed,
      inflight, calls, uncaught, parsed>>

inputVars == <<mode, urls, humanReviews>>

pureVars == <<fn, arg, ret>>

mainVars == <<env, args, customPrompt, exitCode, logBuffer, printed, transcript>>

outputVars == <<reports, mainVars>>

vars == <<inputVars, batchVars, pureVars, outputVars>>

\* nothing written yet: no report file, no summary
NoReports == [written |-> FALSE, csv |-> <<>>, json |-> <<>>, total |-> 0, errors |-> 0]

\* bounds of the model
MaxUrls == 2

\* the polling bound of uploadPdfFromUrl
MaxAttempts == 30

\* entries of the URL list: blank ones, and ones that trimming changes
UrlEntries == {" ", "a.pdf", " b.pdf\n"}

\* a list with an empty entry between two documents
GappedList == <<"a.pdf", " ", " b.pdf\n">>

ReviewEntries ==
    { HumanReview("a.pdf", "Yes", "Fillable PDF", "Yes", "kim", ""),
      HumanReview("b.pdf", "No", "", "", "lee", "flyer, not a form") }

RECURSIVE ListsUpTo(_, _)
ListsUpTo(S, n) ==
    IF n = 0 THEN {<<>>}
    ELSE LET shorter == ListsUpTo(S, n - 1)
         IN  shorter \cup {Append(l, x) : l \in shorter, x \in S}

\* byte lengths of a downloaded body, and the rounding of line 695
ByteLengths == {2300}

roundKB(bytes) == (2 * bytes + 1024) \div 2048

\* seconds Math.round((Date.now() - startTime) / 1000) may give
ElapsedSecs == {1}

\* the File objects files.get may resolve with: uri and mimeType set or not
Files ==
    { [state |-> st, uri |-> um[1], mimeType |-> um[2]] :
        st \in {"ACTIVE", "FAILED"},
        um \in {<<TRUE, TRUE>>, <<FALSE, TRUE>>, <<TRUE, FALSE>>} }
    \cup { [state |-> "PROCESSING", uri |-> TRUE, mimeType |-> TRUE] }

NoFile == [state |-> "", uri |-> FALSE, mimeType |-> FALSE]

\* the calls counted per document (the state queries are counted by attempts)
CallKinds == {"fetch", "upload", "generateContent", "delete"}

NoCalls == [k \in CallKinds |-> 0]

\* lines 731-748 of analyze.ts
AnalysisRecord(url) ==
    [url |-> url, isForm |-> "", formType |-> Str("N/A"), sensitiveInfo |-> NoFlags,
     sensitiveInfoSummary |-> "", confidence |-> 0, pageCount |-> 0, fileSizeKB |-> 0,
     processingTimeSec |-> 0, notes |-> Str(""), error |-> Undefined]

\* faulty variant: the record starts with an empty isForm, as the record of
\* analyze.ts does
EvalRecordEmptyIsForm(url) ==
    [url |-> url, isForm |-> "", formType |-> Str("N/A"), sensitiveInfo |-> NoFlags,
     notes |-> Str(""), error |-> Undefined]

\* lines 171-183 of part_000
EvalRecord(url) ==
    [url |-> url, isForm |-> "Error", formType |-> Str("N/A"), sensitiveInfo |-> NoFlags,
     notes |-> Str(""), error |-> Undefined]

InitialRecord(url) == IF mode = "analyze" THEN AnalysisRecord(url) ELSE EvalRecord(url)

\* Object.assign(target, source)
ObjectAssign(target, source) ==
    [f \in DOMAIN target \cup DOMAIN source |->
        IF f \in DOMAIN source THEN source[f] ELSE target[f]]

Inputs == IF mode = "analyze" THEN urls ELSE humanReviews

\* the URL the loop hands to analyzePdf at index k (0-based)
UrlAt(k) == IF mode = "analyze" THEN trim(urls[k + 1]) ELSE humanReviews[k + 1].url

\* issuing a call of kind k for the document at index i
Issue(k) ==
    /\ calls' = [c \in CallKinds |-> IF c = k THEN calls[c] + 1 ELSE calls[c]]
    /\ inflight' = inflight \cup {i}

\* faulty variant of the try block: the upload is awaited before the block opens
InTryAfterUpload(site) ==
    site \in {"missing", "generateContent", "match", "parse", "normalize"}

\* the steps of analyzePdf that lie inside its try block (lines 750-792)
InTry(site) ==
    site \in {"fetch", "status", "arrayBuffer", "upload", "get", "state", "missing",
              "generateContent", "match", "parse", "normalize"}

\* line 798 and the return; the evaluation script keeps no time
Stamp(res, secs) ==
    IF mode = "analyze" THEN [res EXCEPT !.processingTimeSec = secs] ELSE res

\* faulty variant of the catch block: the message is not copied into notes
CaughtErrorOnly(res, msg) == [res EXCEPT !.error = Str(msg)]

\* the catch block of analyzePdf (lines 792-796)
Caught(res, msg) ==
    [res EXCEPT !.error = Str(msg), !.notes = Str("Error: " \o msg)]

\* the message of the Error a rejected promise of fetch or of the SDK carries
Rejection == "request failed"

\* an exception raised at `site` while the record is `res`; the locals of
\* uploadPdfFromUrl and of the try block go out of scope
Raise(site, msg, res) ==
    /\ failed' = site
    /\ file' = NoFile
    /\ fileSizeKB' = 0
    /\ attempts' = 0
    /\ IF InTry(site)
       THEN /\ \E secs \in ElapsedSecs : result' = Stamp(Caught(res, msg), secs)
            /\ pc' = "returned"
            /\ uncaught' = uncaught
       ELSE /\ result' = res
            /\ pc' = "aborted"
            /\ uncaught' = "analyzePdf"

\* what lines 769-784 make of each reply text: the parsed value and the
\* fragment of each script, or the exception
ParsedReply == [text \in Replies |-> extractJson(text)]

AnalysisFragment == [text \in Replies |-> normalizeResponse(ParsedReply[text].v)]

EvalFragment_ == [text \in Replies |-> evalNormalizeResponse(ParsedReply[text].v)]

\* no log file written
NoTranscript == [written |-> FALSE, lines |-> <<>>]

\* main after its start-up, with the API key set and the input list read; the
\* messages of a run are followed in SpecMain
PastStartup ==
    /\ env = [apiKey |-> "key", argv |-> <<"urls.txt">>, files |-> {"urls.txt"}]
    /\ args = env.argv
    /\ customPrompt = Undefined
    /\ exitCode = 0
    /\ logBuffer = <<>>
    /\ printed = <<>>
    /\ transcript = NoTranscript

Init ==
    /\ mode \in {"analyze", "eval"}
    /\ IF mode = "analyze"
       THEN /\ urls \in (ListsUpTo(UrlEntries, MaxUrls) \ {<<>>}) \cup {GappedList}
            /\ humanReviews = <<>>
       ELSE /\ urls = <<>>
            /\ humanReviews \in ListsUpTo(ReviewEntries, MaxUrls) \ {<<>>}
    /\ i = 0
    /\ pc = "loop"
    /\ result = InitialRecord("")
    /\ results = <<>>
    /\ comparisons = <<>>
    /\ file = NoFile
    /\ fileSizeKB = 0
    /\ attempts = 0
    /\ failed = ""
    /\ inflight = {}
    /\ calls = NoCalls
    /\ uncaught = ""
    /\ parsed = Bare("undefined")
    /\ fn = ""
    /\ arg = Undefined
    /\ ret = Undefined
    /\ reports = NoReports
    /\ PastStartup

\* the for loop ends: analyzeAll returns results, main goes on to the reports
LoopExit ==
    /\ pc = "loop"
    /\ i >= Len(Inputs)
    /\ pc' = "done"
    /\ UNCHANGED <<i, result, results, comparisons, file, fileSizeKB, attempts, failed,
                   inflight, calls, uncaught, parsed, inputVars, pureVars, outputVars>>

\* analyzeAll, lines 870-871: an entry that is empty after trimming is skipped
SkipBlank ==
    /\ pc = "loop"
    /\ mode = "analyze"
    /\ i < Len(urls)
    /\ trim(urls[i + 1]) = ""
    /\ i' = i + 1
    /\ UNCHANGED <<pc, result, results, comparisons, file, fileSizeKB, attempts, failed,
                   inflight, calls, uncaught, parsed, inputVars, pureVars, outputVars>>

\* faulty variant of the loop body: analyzePdf is called and not awaited, so the
\* loop goes on to the next entry while the download is pending
StartDocumentNotAwaited ==
    /\ pc = "loop"
    /\ i < Len(Inputs)
    /\ mode = "analyze" => trim(urls[i + 1]) # ""
    /\ result' = InitialRecord(UrlAt(i))
    /\ failed' = ""
    /\ calls' = [NoCalls EXCEPT !["fetch"] = 1]
    /\ inflight' = inflight \cup {i}
    /\ parsed' = Bare("undefined")
    /\ i' = i + 1
    /\ pc' = "loop"
    /\ UNCHANGED <<results, comparisons, file, fileSizeKB, attempts, uncaught,
                   inputVars, pureVars, outputVars>>

\* analyzePdf is called: the record is initialised and the download request sent
StartDocument ==
    /\ pc = "loop"
    /\ i < Len(Inputs)
    /\ mode = "analyze" => trim(urls[i + 1]) # ""
    /\ result' = InitialRecord(UrlAt(i))
    /\ failed' = ""
    /\ calls' = [NoCalls EXCEPT !["fetch"] = 1]
    /\ inflight' = inflight \cup {i}
    /\ parsed' = Bare("undefined")
    /\ pc' = "fetch"
    /\ UNCHANGED <<i, results, comparisons, file, fileSizeKB, attempts, uncaught,
                   inputVars, pureVars, outputVars>>

\* faulty variant of FetchSettled: a rejected download is sent once more
FetchSettledRetryOnce ==
    /\ pc = "fetch"
    /\ \/ /\ calls["fetch"] = 1
          /\ Issue("fetch")
          /\ UNCHANGED <<pc, result, file, fileSizeKB, attempts, failed, uncaught>>
       \/ /\ calls["fetch"] > 1
          /\ Raise("fetch", Rejection, result)
          /\ UNCHANGED <<inflight, calls>>
       \/ /\ Raise("status", "Failed to download: 404 Not Found", result)
          /\ UNCHANGED <<inflight, calls>>
       \/ /\ pc' = "arrayBuffer"
          /\ UNCHANGED <<result, file, fileSizeKB, attempts, failed, inflight, calls, uncaught>>
    /\ UNCHANGED <<i, results, comparisons, parsed, inputVars, pureVars, outputVars>>

\* fetch settles: rejected, a non-OK status, or a response whose body is read
FetchSettled ==
    /\ pc = "fetch"
    /\ \/ /\ Raise("fetch", Rejection, result)
          /\ UNCHANGED <<inflight, calls>>
       \/ /\ Raise("status", "Failed to download: 404 Not Found", result)
          /\ UNCHANGED <<inflight, calls>>
       \/ /\ pc' = "arrayBuffer"
          /\ UNCHANGED <<result, file, fileSizeKB, attempts, failed, inflight, calls, uncaught>>
    /\ UNCHANGED <<i, results, comparisons, parsed, inputVars, pureVars, outputVars>>

\* response.arrayBuffer() settles; on success the upload is sent
BodySettled ==
    /\ pc = "arrayBuffer"
    /\ \/ /\ Raise("arrayBuffer", Rejection, result)
          /\ UNCHANGED <<inflight, calls>>
       \/ /\ \E bytes \in ByteLengths : fileSizeKB' = roundKB(bytes)
          /\ Issue("upload")
          /\ pc' = "upload"
          /\ UNCHANGED <<result, file, attempts, failed, uncaught>>
    /\ UNCHANGED <<i, results, comparisons, parsed, inputVars, pureVars, outputVars>>

\* files.upload settles; on success the first state query is sent
UploadSettled ==
    /\ pc = "upload"
    /\ \/ /\ Raise("upload", Rejection, result)
          /\ UNCHANGED <<inflight, calls>>
       \/ /\ pc' = "get"
          /\ inflight' = inflight \cup {i}
          /\ UNCHANGED <<result, file, fileSizeKB, attempts, failed, calls, uncaught>>
    /\ UNCHANGED <<i, results, comparisons, parsed, inputVars, pureVars, outputVars>>

\* the code after a state query resolved with f, the counter being att:
\* the while test of line 712, then lines 719-723 and 753-767 of analyzePdf
AfterGet(f, att) ==
    IF f.state = "PROCESSING" /\ att < MaxAttempts
    THEN /\ file' = f
         /\ attempts' = att
         /\ pc' = "sleep"
         /\ UNCHANGED <<result, fileSizeKB, failed, inflight, calls, uncaught>>
    ELSE IF f.state = "FAILED"
    THEN /\ Raise("state", "Gemini file processing failed", result)
         /\ UNCHANGED <<inflight, calls>>
    ELSE LET res == IF mode = "analyze"
                    THEN [result EXCEPT !.fileSizeKB = fileSizeKB]
                    ELSE result
         IN  IF ~f.uri \/ ~f.mimeType
             THEN /\ Raise("missing", "File upload succeeded but missing URI or mimeType", res)
                  /\ UNCHANGED <<inflight, calls>>
             ELSE /\ file' = f
                  /\ attempts' = 0
                  /\ result' = res
                  /\ Issue("generateContent")
                  /\ pc' = "generateContent"
                  /\ UNCHANGED <<fileSizeKB, failed, uncaught>>

\* the first files.get settles
GetSettled ==
    /\ pc = "get"
    /\ \/ /\ Raise("get", Rejection, result)
          /\ UNCHANGED <<inflight, calls>>
       \/ \E f \in Files : AfterGet(f, 0)
    /\ UNCHANGED <<i, results, comparisons, parsed, inputVars, pureVars, outputVars>>

\* the two-second timer of the polling loop fires and the state is queried again
SleepElapsed ==
    /\ pc = "sleep"
    /\ inflight' = inflight \cup {i}
    /\ pc' = "poll"
    /\ UNCHANGED <<i, result, results, comparisons, file, fileSizeKB, attempts, failed,
                   calls, uncaught, parsed, inputVars, pureVars, outputVars>>

\* faulty variant of PollSettled: the loop forgets attempts++
PollSettledNotCounted ==
    /\ pc = "poll"
    /\ \/ /\ Raise("get", Rejection, result)
          /\ UNCHANGED <<inflight, calls>>
       \/ \E f \in Files : AfterGet(f, attempts)
    /\ UNCHANGED <<i, results, comparisons, parsed, inputVars, pureVars, outputVars>>

\* a files.get of the polling loop settles
PollSettled ==
    /\ pc = "poll"
    /\ \/ /\ Raise("get", Rejection, result)
          /\ UNCHANGED <<inflight, calls>>
       \/ \E f \in Files : AfterGet(f, attempts + 1)
    /\ UNCHANGED <<i, results, comparisons, parsed, inputVars, pureVars, outputVars>>

\* generateContent settles; the reply is parsed, normalized and assigned, and
\* the delete request is sent
GenerateSettled ==
    /\ pc = "generateContent"
    /\ \/ /\ Raise("generateContent", Rejection, result)
          /\ UNCHANGED <<inflight, calls, parsed>>
       \/ \E text \in Replies :
            LET json == ParsedReply[text]
                fragment == IF mode = "analyze" THEN AnalysisFragment[text]
                            ELSE EvalFragment_[text]
            IN  IF json.err = "Could not parse JSON from response"
                THEN /\ Raise("match", json.err, result)
                     /\ UNCHANGED <<inflight, calls, parsed>>
                ELSE IF json.err # ""
                THEN /\ Raise("parse", json.err, result)
                     /\ UNCHANGED <<inflight, calls, parsed>>
                ELSE /\ parsed' = json.v
                     /\ IF fragment.err # ""
                        THEN /\ Raise("normalize", fragment.err, result)
                             /\ UNCHANGED <<inflight, calls>>
                        ELSE /\ result' = ObjectAssign(result, fragment.v)
                             /\ Issue("delete")
                             /\ pc' = "delete"
                             /\ UNCHANGED <<file, fileSizeKB, attempts, failed, uncaught>>
    /\ UNCHANGED <<i, results, comparisons, inputVars, pureVars, outputVars>>

\* faulty variant of DeleteSettled: the delete call is not wrapped in its own
\* try, so its rejection reaches the catch block of analyzePdf
DeleteSettledUnguarded ==
    /\ pc = "delete"
    /\ \/ /\ failed' = failed
          /\ \E secs \in ElapsedSecs : result' = Stamp(result, secs)
       \/ /\ failed' = "delete"
          /\ \E secs \in ElapsedSecs : result' = Stamp(Caught(result, Rejection), secs)
    /\ file' = NoFile
    /\ fileSizeKB' = 0
    /\ pc' = "returned"
    /\ UNCHANGED <<i, results, comparisons, attempts, inflight, calls, uncaught,
                   parsed, inputVars, pureVars, outputVars>>

\* files.delete settles; a rejection is swallowed (lines 787-791)
DeleteSettled ==
    /\ pc = "delete"
    /\ \/ failed' = failed
       \/ failed' = "delete"
    /\ \E secs \in ElapsedSecs : result' = Stamp(result, secs)
    /\ file' = NoFile
    /\ fileSizeKB' = 0
    /\ pc' = "returned"
    /\ UNCHANGED <<i, results, comparisons, attempts, inflight, calls, uncaught,
                   parsed, inputVars, pureVars, outputVars>>

\* faulty variant of AfterDocument: the loop goes on without the delay
AfterDocumentNoDelay == pc' = "loop" /\ i' = i + 1

\* where the loop goes after a document: the one-second delay, or the next index
AfterDocument ==
    IF i < Len(Inputs) - 1
    THEN pc' = "delay" /\ i' = i
    ELSE pc' = "loop" /\ i' = i + 1

\* analyzeAll, lines 875-890: the record is appended and logged
PushResult ==
    /\ pc = "returned"
    /\ mode = "analyze"
    /\ results' = Append(results, result)
    /\ inflight' = inflight \ {i}
    /\ IF Truthy(result.notes) /\ result.notes.t # "string"
       THEN \* result.notes.substring is not a function
            /\ pc' = "aborted"
            /\ i' = i
            /\ uncaught' = "analyzeAll"
       ELSE /\ AfterDocument
            /\ uncaught' = uncaught
    /\ failed' = ""
    /\ calls' = NoCalls
    /\ parsed' = Bare("undefined")
    /\ UNCHANGED <<result, comparisons, file, fileSizeKB, attempts, inputVars, pureVars, outputVars>>

\* main of part_000, lines 450-468: the record is compared and the comparison appended
ComparePush ==
    /\ pc = "returned"
    /\ mode = "eval"
    /\ LET comparison == compare(humanReviews[i + 1], result)
       IN  IF comparison.err # ""
           THEN /\ pc' = "aborted"
                /\ i' = i
                /\ uncaught' = "compare"
                /\ UNCHANGED <<comparisons, inflight>>
           ELSE /\ comparisons' = Append(comparisons, comparison.v)
                /\ inflight' = inflight \ {i}
                /\ AfterDocument
                /\ uncaught' = uncaught
    /\ failed' = ""
    /\ calls' = NoCalls
    /\ parsed' = Bare("undefined")
    /\ UNCHANGED <<result, results, file, fileSizeKB, attempts, inputVars, pureVars, outputVars>>

\* the one-second timer between two documents fires
DelayElapsed ==
    /\ pc = "delay"
    /\ i' = i + 1
    /\ pc' = "loop"
    /\ UNCHANGED <<result, results, comparisons, file, fileSizeKB, attempts, failed,
                   inflight, calls, uncaught, parsed, inputVars, pureVars, outputVars>>

\* analyze.ts, lines 1071-1078: the CSV rows, the JSON report and the counts
\* of the summary for the records rs
analysisReports(rs) ==
    [written |-> TRUE,
     csv |-> [k \in DOMAIN rs |-> joinFields(analysisRow(rs[k]))],
     json |-> rs,
     total |-> Len(rs),
     errors |-> Cardinality({k \in DOMAIN rs : Truthy(rs[k].error)})]

\* main after the batch: analyze.ts writes the CSV and the JSON report and
\* prints the summary; part_000 writes the comparison CSV and prints its
\* summary, which has no error count
WriteReports ==
    /\ pc = "done"
    /\ reports' =
         IF mode = "analyze"
         THEN analysisReports(results)
         ELSE [written |-> TRUE,
               csv |-> [k \in DOMAIN comparisons |->
                           joinFields(comparisonRow(comparisons[k]))],
               json |-> <<>>,
               total |-> Len(comparisons),
               errors |-> 0]
    /\ pc' = "reported"
    /\ UNCHANGED <<i, result, results, comparisons, file, fileSizeKB, attempts, failed,
                   inflight, calls, uncaught, parsed, inputVars, pureVars, mainVars>>

Next ==
    \/ LoopExit
    \/ SkipBlank
    \/ StartDocument
    \/ FetchSettled
    \/ BodySettled
    \/ UploadSettled
    \/ GetSettled
    \/ SleepElapsed
    \/ PollSettled
    \/ GenerateSettled
    \/ DeleteSettled
    \/ PushResult
    \/ ComparePush
    \/ DelayElapsed
    \/ WriteReports

Spec == Init /\ [][Next]_vars

\* the batch under the scheduling of the runtime: a timer that was set fires
\* and a pending call settles, so some step is always taken while one is due
\* (weak fairness of Next, with the states in which no step is due written
\* out: main has reported, or an exception has ended the run)
SpecFair == Spec /\ ([]<>(pc \in {"reported", "aborted"}) \/ []<><<Next>>_vars)

(***************************************************************************)
(* Direct calls of the normalizers, on arguments drawn from bounded sets.  *)
(***************************************************************************)

\* number of pieces a raw form-type text is put together from
MaxParts == 2

FormTypePieces ==
    {"fillable", "Fillable", "non-", "Non-", "non", "pdf", "PDF", " ", "google",
     "Airtable", "office", "Excel", "word", "phone", "email", "digital", "printable",
     "n/a", "N/A", "not a form", "form", "survey"}

RECURSIVE TextsUpTo(_, _)
TextsUpTo(S, n) ==
    IF n = 0 THEN {""}
    ELSE LET shorter == TextsUpTo(S, n - 1)
         IN  shorter \cup {t \o x : t \in shorter, x \in S}

\* texts in which the fillable-and-pdf rule competes with each later rule
MixedFormTypeTexts ==
    {"Google fillable PDF", "PDF (fillable) on Airtable", "fillable office pdf",
     "Excel export, fillable PDF", "Word or fillable PDF", "fillable pdf by phone",
     "Email a Fillable PDF", "digital fillable pdf", "Printable PDF, not fillable",
     "nonfillable pdf", "  FILLABLE  pdf\n", "PDF", "scanned pdf", "web form",
     "Not a form", "unknown", "fillable"}

FormTypeTexts ==
    TextsUpTo(FormTypePieces, MaxParts) \cup CanonicalFormTypes \cup MixedFormTypeTexts

FormTypeArgs ==
    {Str(t) : t \in FormTypeTexts}
    \cup {Undefined, Null, Num(0), Num(500), Bool(TRUE), Bool(FALSE), EmptyObject}

IsFormArgs == {Undefined, Str("Yes"), Str("yes"), Str("YES"), Str("No"), Str(" Yes"), Bool(TRUE)}

SensitiveArgs ==
    {NoSensitive("undefined"), NoSensitive("null"), NoSensitive("object"), NoSensitive("string"),
     SensitiveValue("object", Bool(TRUE), Bool(FALSE), Undefined, Null, Str("yes")),
     SensitiveValue("object", Num(0), Str(""), Num(100), Bool(TRUE), Bool(TRUE)),
     SensitiveValue("object", Bool(TRUE), Bool(TRUE), Bool(TRUE), Bool(TRUE), Bool(TRUE))}

\* what parsed.confidence and parsed.pageCount may hold (numbers in hundredths)
NumericArgs ==
    {Undefined, Null, Num(0), Num(90), Num(-100), Num(300), Str("0.9"), Str(""),
     Bool(TRUE), EmptyObject}

ParsedArgs ==
    { ParsedValue("object", isForm, formType, sens, conf, pages, notes) :
        isForm \in IsFormArgs,
        formType \in {Undefined, Null, Str(""), Num(0), Num(500), EmptyObject,
                      Str("Fillable PDF"), Str("Non-Fillable PDF"), Str("custom survey"),
                      Str("N/A")},
        sens \in SensitiveArgs,
        conf \in {Undefined, Num(90), Num(150), Str("0.9")},
        pages \in {Undefined, Num(300), Num(-100)},
        notes \in {Undefined, Str("a memo"), Num(700)} }
    \cup { ParsedValue("object", Str("Yes"), Str("Fillable PDF"), NoSensitive("undefined"),
                        conf, pages, Undefined) :
              conf \in NumericArgs, pages \in NumericArgs }
    \cup {Bare("null"), Bare("array"), Bare("object"), Bare("number"), Bare("string")}

InitCall ==
    /\ mode = "analyze"
    /\ urls = <<>>
    /\ humanReviews = <<>>
    /\ i = 0
    /\ pc = "call"
    /\ result = AnalysisRecord("")
    /\ results = <<>>
    /\ comparisons = <<>>
    /\ file = NoFile
    /\ fileSizeKB = 0
    /\ attempts = 0
    /\ failed = ""
    /\ inflight = {}
    /\ calls = NoCalls
    /\ uncaught = ""
    /\ parsed = Bare("undefined")
    /\ \/ fn = "normalizeFormType" /\ arg \in FormTypeArgs
       \/ fn \in {"normalizeResponse", "evalNormalizeResponse"} /\ arg \in ParsedArgs
    /\ ret = Undefined
    /\ reports = NoReports
    /\ PastStartup

CallNormalizeFormType ==
    /\ pc = "call"
    /\ fn = "normalizeFormType"
    /\ ret' = normalizeFormType(arg)
    /\ pc' = "called"
    /\ UNCHANGED <<fn, arg, inputVars, i, result, results, comparisons, file, fileSizeKB,
                   attempts, failed, inflight, calls, uncaught, parsed, outputVars>>

CallNormalizeResponse ==
    /\ pc = "call"
    /\ fn = "normalizeResponse"
    /\ ret' = normalizeResponse(arg)
    /\ pc' = "called"
    /\ UNCHANGED <<fn, arg, inputVars, i, result, results, comparisons, file, fileSizeKB,
                   attempts, failed, inflight, calls, uncaught, parsed, outputVars>>

CallEvalNormalizeResponse ==
    /\ pc = "call"
    /\ fn = "evalNormalizeResponse"
    /\ ret' = evalNormalizeResponse(arg)
    /\ pc' = "called"
    /\ UNCHANGED <<fn, arg, inputVars, i, result, results, comparisons, file, fileSizeKB,
                   attempts, failed, inflight, calls, uncaught, parsed, outputVars>>

NextCall ==
    \/ CallNormalizeFormType
    \/ CallNormalizeResponse
    \/ CallEvalNormalizeResponse

SpecNormalizer == InitCall /\ [][NextCall]_vars

(***************************************************************************)
(* Direct calls of the comparator, of the report writers' helpers and of   *)
(* the input reader, on arguments drawn from bounded sets.                 *)
(***************************************************************************)

\* reviews as parseHumanReviews builds them: every text trimmed
HumanArgs ==
    { HumanReview("a.pdf", isForm, formType, sens, "kim", notes) :
        isForm \in {"Yes", "yes", "No", "no", "NO", "", "Yes, partly"},
        formType \in {"", "Fillable PDF", "fillable pdf", "Non-Fillable PDF", "N/A", "na",
                      "Google form", "google form"},
        sens \in {"", "No", "Yes"},
        notes \in {"", "see page 2, \"Part B\""} }

\* records as analyzePdf of the evaluation script returns them
LlmArgs ==
    { [url |-> "a.pdf", isForm |-> isForm, formType |-> formType, sensitiveInfo |-> info,
       notes |-> notes, error |-> Undefined] :
        isForm \in {"Yes", "No"},
        formType \in {Str("N/A"), Str("Fillable PDF"), Str("Non-Fillable PDF"),
                      Str("nonfillable"), Str("Google Form"), Str("custom survey"), Num(500)},
        info \in {NoFlags, [NoFlags EXCEPT !.ssn = TRUE, !.financial = TRUE]},
        notes \in {Str(""), Str("w-9, 2 pages")} }
    \cup { [EvalRecord("a.pdf") EXCEPT !.error = Str(Rejection),
                                      !.notes = Str("Error: " \o Rejection)] }

\* the reviewer's sensitivity column, trimmed as parseHumanReviews leaves it
HumanSensitiveTexts ==
    {"", "No", "no", "NO", "Yes", "yes", "YES", "SSN", "ssn and dl#", "DL#", "Financial",
     "health", "SSN, Financial", "None", "n/a", "not sure"}

\* the machine summary: what formatSensitiveInfo can return, and the texts the
\* rule itself tests for; like the reviewer's, none has outer white space
LlmSensitiveTexts ==
    {formatSensitiveInfo(info) : info \in [FlagNames -> BOOLEAN]}
    \cup {"", "no", "NO", "financial", "health", "None", "not sure"}

\* number of pieces a field text is put together from
MaxFieldParts == 3

FieldPieces == {",", Quote, "\n", "\r", "a", " "}

FieldTexts == TextsUpTo(FieldPieces, MaxFieldParts)

\* records as analyzePdf of the analysis script returns them
AnalysisRecordArgs ==
    { [ObjectAssign(AnalysisRecord(u), normalizeResponse(d).v)
         EXCEPT !.fileSizeKB = 2, !.processingTimeSec = 11] :
        u \in {"a.pdf", "http://x.test/a,b.pdf"},
        d \in { [j.value EXCEPT !.notes = n] :
                  j \in {j \in JsonDocuments : normalizeResponse(j.value).err = ""},
                  n \in {Undefined, Str("w-9"), Str("see \"Part B\", page 2\nand 3")} } }
    \cup { [Caught(AnalysisRecord(u), msg) EXCEPT !.processingTimeSec = 1] :
             u \in {"a.pdf", "http://x.test/a,b.pdf"},
             msg \in {"Failed to download: 404 Not Found",
                      "Unexpected token in JSON", Rejection} }

\* input files of readUrlsFromFile: line files built from a few pieces, the
\* spec's line file, and delimited files
MaxFileParts == 4

UrlFilePieces == {"a.pdf", "b.pdf", "\n", "#", " ", "\r"}

SpecLineFile == "https://x.test/a.pdf\n# comment\n\nhttps://x.test/b.pdf"

UrlFileArgs ==
    [path : {"urls.txt"},
     content : TextsUpTo(UrlFilePieces, MaxFileParts) \cup {SpecLineFile}]
    \cup [path : {"URLS.TXT", "urls.csv"},
          content : {SpecLineFile,
                     "url,Review\nhttp://x.test/a.pdf,Yes\n\"HTTPS://x.test/b.PDF\",No,http://x.test/a.pdf",
                     "see http://x.test/c.pdf.bak.pdf and <http://x.test/d.pdf>",
                     "http://.pdf ftp://x.test/e.pdf"}]

\* what a direct call leaves alone
callFrame ==
    <<fn, arg, inputVars, i, result, results, comparisons, file, fileSizeKB, attempts,
      failed, inflight, calls, uncaught, parsed, outputVars>>

\* the state before a direct call of fn on arg
BeforeCall ==
    /\ mode = "eval"
    /\ urls = <<>>
    /\ humanReviews = <<>>
    /\ i = 0
    /\ pc = "call"
    /\ result = EvalRecord("")
    /\ results = <<>>
    /\ comparisons = <<>>
    /\ file = NoFile
    /\ fileSizeKB = 0
    /\ attempts = 0
    /\ failed = ""
    /\ inflight = {}
    /\ calls = NoCalls
    /\ uncaught = ""
    /\ parsed = Bare("undefined")
    /\ ret = Undefined
    /\ reports = NoReports
    /\ PastStartup

InitHelper ==
    /\ BeforeCall
    /\ \/ fn = "compare" /\ arg \in [human : HumanArgs, llm : LlmArgs]
       \/ /\ fn = "normalizeSensitiveForComparison"
          /\ arg \in [human : HumanSensitiveTexts, llm : LlmSensitiveTexts]
       \/ fn = "escapeField" /\ arg \in FieldTexts
       \/ /\ fn = "comparisonRow"
          /\ arg \in [human : {h \in HumanArgs : h.sensitiveInfo = "Yes"},
                      llm : {l \in LlmArgs : l.formType.t = "string" /\ l.isForm = "Yes"}]
       \/ fn = "readUrlsFromFile" /\ arg \in UrlFileArgs
       \/ /\ fn = "extractJson"
          /\ arg \in Replies \cup { d.text \o tail :
                                      d \in JsonDocuments,
                                      tail \in {"", "\n", " as in {isForm}", "\n{}"} }
       \/ fn = "analysisRow" /\ arg \in AnalysisRecordArgs

CallCompare ==
    /\ pc = "call"
    /\ fn = "compare"
    /\ ret' = compare(arg.human, arg.llm)
    /\ pc' = "called"
    /\ UNCHANGED callFrame

CallNormalizeSensitive ==
    /\ pc = "call"
    /\ fn = "normalizeSensitiveForComparison"
    /\ ret' = normalizeSensitiveForComparison(arg.human, arg.llm)
    /\ pc' = "called"
    /\ UNCHANGED callFrame

CallEscapeField ==
    /\ pc = "call"
    /\ fn = "escapeField"
    /\ ret' = escapeField(arg)
    /\ pc' = "called"
    /\ UNCHANGED callFrame

\* one data row of writeComparisonCsv, as written to the file for the
\* comparison of a review with a machine record
CallComparisonRow ==
    /\ pc = "call"
    /\ fn = "comparisonRow"
    /\ ret' = joinFields(comparisonRow(compare(arg.human, arg.llm).v))
    /\ pc' = "called"
    /\ UNCHANGED callFrame

\* one data row of writeResultsCsv, as written to the file
CallAnalysisRow ==
    /\ pc = "call"
    /\ fn = "analysisRow"
    /\ ret' = joinFields(analysisRow(arg))
    /\ pc' = "called"
    /\ UNCHANGED callFrame

CallReadUrlsFromFile ==
    /\ pc = "call"
    /\ fn = "readUrlsFromFile"
    /\ ret' = readUrlsFromFile(arg.path, arg.content)
    /\ pc' = "called"
    /\ UNCHANGED callFrame

\* lines 769-784 on a reply text
CallExtractJson ==
    /\ pc = "call"
    /\ fn = "extractJson"
    /\ ret' = extractJson(arg)
    /\ pc' = "called"
    /\ UNCHANGED callFrame

NextHelper ==
    \/ CallCompare
    \/ CallNormalizeSensitive
    \/ CallEscapeField
    \/ CallComparisonRow
    \/ CallAnalysisRow
    \/ CallReadUrlsFromFile
    \/ CallExtractJson

SpecHelpers == InitHelper /\ [][NextHelper]_vars

(***************************************************************************)
(* The start-up of main: from the process start to the call of analyzeAll  *)
(* (analyze.ts) or of parseHumanReviews (part_000), or to process.exit.    *)
(***************************************************************************)
TEST_URLS ==
    <<"http://cspinet.org/new/pdf/cspi_soda_philanthropy_online.pdf",
      "http://forms.sfplanning.org/SchoolChildCareManagementPlan_SupplementalApplication.pdf",
      "http://media.api.sf.gov/documents/Folsom_Street_Entertainment_Zone_Management_Plan_.pdf",
      "http://oag.ca.gov/sites/all/files/agweb/pdfs/victimservices/OVSform.pdf",
      "http://sfbos.org/ftp/uploadedfiles/bdsupvrs/ordinances15/o0099-15.pdf",
      "http://www.cdcr.ca.gov/victim_services/docs/CDCR1707.pdf">>

\* readFileSync of the files a run may find
FileContent(path) ==
    CASE path = "urls.txt" -> SpecLineFile
      [] path = "empty.txt" -> "# nothing yet\n\n"
      [] OTHER -> "Classify the document."

\* process.argv.slice(2), process.env.GEMINI_API_KEY and the files that exist
MainEnvs ==
    [apiKey : {"", "key"},
     argv : {<<>>, <<"--test">>, <<"urls.txt">>, <<"empty.txt">>, <<"http://x.test/a.pdf">>,
             <<"--prompt">>, <<"urls.txt", "--prompt">>, <<"--prompt", "", "urls.txt">>,
             <<"--prompt", "p.md">>, <<"--prompt", "p.md", "urls.txt">>,
             <<"urls.txt", "--prompt", "p.md">>, <<"--prompt", "p.md", "--test">>},
     files : SUBSET {"urls.txt", "empty.txt", "p.md"}]

InitMain ==
    /\ mode \in {"analyze", "eval"}
    /\ env \in MainEnvs
    /\ args = env.argv
    /\ customPrompt = Undefined
    /\ exitCode = 0
    /\ logBuffer = <<>>
    /\ printed = <<>>
    /\ transcript = NoTranscript
    /\ urls = <<>>
    /\ humanReviews = <<>>
    /\ i = 0
    /\ pc = "main"
    /\ result = InitialRecord("")
    /\ results = <<>>
    /\ comparisons = <<>>
    /\ file = NoFile
    /\ fileSizeKB = 0
    /\ attempts = 0
    /\ failed = ""
    /\ inflight = {}
    /\ calls = NoCalls
    /\ uncaught = ""
    /\ parsed = Bare("undefined")
    /\ fn = ""
    /\ arg = Undefined
    /\ ret = Undefined
    /\ reports = NoReports

\* what main itself leaves alone
mainFrame ==
    <<mode, humanReviews, i, result, comparisons, file, fileSizeKB, attempts,
      failed, inflight, calls, uncaught, parsed, pureVars, env>>

\* process.exit(code)
Exit(code) ==
    /\ exitCode' = code
    /\ pc' = "exit"

\* A line handed to the terminal and the function it went through.  The
\* pictographs that open many messages of the source are left out of the
\* texts.
viaLog(message) == [via |-> "console.log", message |-> message]

viaError(message) == [via |-> "console.error", message |-> message]

viaOriginalLog(message) == [via |-> "originalLog", message |-> message]

\* faulty variant: only console.log is replaced
logReplacesConsoleLogOnly(line) == mode = "analyze" /\ line.via = "console.log"

\* analyze.ts, lines 526-540: console.log is log and console.error is logError,
\* and both push their message; part_000 keeps the console as it is
logReplacesConsole(line) ==
    mode = "analyze" /\ line.via \in {"console.log", "console.error"}

\* the messages of a sequence of lines
messagesOf(lines) == [k \in DOMAIN lines |-> lines[k].message]

\* the lines of one step reach the terminal, and the buffer when they went
\* through log or logError
Console(lines) ==
    /\ printed' = printed \o lines
    /\ logBuffer' = logBuffer \o messagesOf(SelectSeq(lines, logReplacesConsole))

\* both scripts: if (!apiKey) process.exit(1)
MainCheckApiKey ==
    /\ pc = "main"
    /\ IF env.apiKey = ""
       THEN /\ Exit(1)
            /\ Console(<<viaError("Error: GEMINI_API_KEY environment variable is required")>>
                       \o IF mode = "analyze"
                          THEN <<viaError("   Set it with: GEMINI_API_KEY=your_key npx tsx src/analyze.ts")>>
                          ELSE <<>>)
       ELSE /\ pc' = IF mode = "analyze" THEN "prompt" ELSE "input"
            /\ UNCHANGED <<exitCode, logBuffer, printed>>
    /\ UNCHANGED <<urls, args, customPrompt, transcript, results, reports, mainFrame>>

\* args.indexOf(x), 1-based; 0 when absent
argIndexOf(list, x) ==
    IF \E k \in DOMAIN list : list[k] = x
    THEN CHOOSE k \in DOMAIN list : list[k] = x /\ \A j \in 1..(k - 1) : list[j] # x
    ELSE 0

\* analyze.ts: the --prompt option
MainParsePrompt ==
    /\ pc = "prompt"
    /\ LET promptIdx == argIndexOf(args, "--prompt")
       IN  IF promptIdx # 0 /\ promptIdx + 1 <= Len(args) /\ args[promptIdx + 1] # ""
           THEN IF args[promptIdx + 1] \notin env.files
                THEN /\ Exit(1)
                     /\ Console(<<viaError("Error: Prompt file not found: "
                                           \o args[promptIdx + 1])>>)
                     /\ UNCHANGED <<args, customPrompt>>
                ELSE /\ customPrompt' = Str(FileContent(args[promptIdx + 1]))
                     /\ Console(<<viaLog("Using custom prompt from: "
                                         \o args[promptIdx + 1] \o "\n")>>)
                     /\ args' = SubSeq(args, 1, promptIdx - 1)
                                \o SubSeq(args, promptIdx + 2, Len(args))
                     /\ pc' = "input"
                     /\ UNCHANGED exitCode
           ELSE /\ pc' = "input"
                /\ UNCHANGED <<args, customPrompt, exitCode, logBuffer, printed>>
    /\ UNCHANGED <<urls, transcript, results, reports, mainFrame>>

\* analyze.ts, lines 1048-1051
usageLines ==
    <<viaLog("Usage:"),
      viaLog("  GEMINI_API_KEY=key npx tsx src/analyze.ts input.csv     # Analyze URLs from CSV"),
      viaLog("  GEMINI_API_KEY=key npx tsx src/analyze.ts <url>         # Analyze single URL"),
      viaLog("  GEMINI_API_KEY=key npx tsx src/analyze.ts --test        # Run test with sample URLs")>>

\* analyze.ts: the URLs to analyse, then the call of analyzeAll
MainChooseUrls ==
    /\ pc = "input"
    /\ mode = "analyze"
    /\ IF Len(args) = 0 /\ argIndexOf(args, "--test") = 0
       THEN /\ Exit(0)
            /\ Console(usageLines)
            /\ UNCHANGED urls
       ELSE LET test == argIndexOf(args, "--test") # 0
                fromFile == ~test /\ args[1] \in env.files
                chosen == IF test THEN TEST_URLS
                          ELSE IF fromFile
                          THEN readUrlsFromFile(args[1], FileContent(args[1]))
                          ELSE <<args[1]>>
                said == IF test THEN <<viaLog("Test mode: analyzing sample PDFs\n")>>
                        ELSE IF fromFile
                        THEN <<viaLog("Reading URLs from: " \o args[1] \o "\n"),
                               viaLog("   Found " \o intToString(Len(chosen))
                                      \o " PDF URLs\n")>>
                        ELSE <<>>
            IN  /\ urls' = chosen
                /\ IF Len(chosen) = 0
                   THEN /\ Exit(1)
                        /\ Console(said \o <<viaError("No URLs found to analyze")>>)
                   ELSE /\ pc' = "batch"
                        /\ Console(said \o <<viaLog("Analyzing " \o intToString(Len(chosen))
                                                    \o " PDF(s)...")>>)
                        /\ UNCHANGED exitCode
    /\ UNCHANGED <<args, customPrompt, transcript, results, reports, mainFrame>>

\* part_000: the usage text, or the call of parseHumanReviews
MainEvalInput ==
    /\ pc = "input"
    /\ mode = "eval"
    /\ IF Len(args) = 0 \/ args[1] \notin env.files
       THEN /\ Exit(0)
            /\ Console(<<viaLog("Usage: npm run eval -- input.csv"),
                         viaLog("\nThe input CSV should have columns:"),
                         viaLog("  - url: PDF URL"),
                         viaLog("  - Review: Is this a form"),
                         viaLog("  - Reviewer: Form Type"),
                         viaLog("  - Reviewer: Does this form ask for SSN, DL#...")>>)
       ELSE /\ pc' = "reviews"
            /\ Console(<<viaLog("Reading human reviews from: " \o args[1] \o "\n")>>)
            /\ UNCHANGED exitCode
    /\ UNCHANGED <<urls, args, customPrompt, transcript, results, reports, mainFrame>>

\* the records analyzePdf may settle with for the URL u: two replies with
\* notes, one of them a number, and a failed download
MainRecords(u) ==
    { [ObjectAssign(AnalysisRecord(u), normalizeResponse(d.value).v)
         EXCEPT !.fileSizeKB = 2, !.processingTimeSec = 11] :
        d \in {j \in JsonDocuments : Truthy(j.value.notes)} }
    \cup { [Caught(AnalysisRecord(u), "Failed to download: 404 Not Found")
              EXCEPT !.processingTimeSec = 1] }

\* analyzePdf, lines 680, 702, 759 and 795: what it prints for the record r
analyzePdfLines(r) ==
    <<viaLog("  Downloading PDF from " \o r.url)>>
    \o IF Truthy(r.error)
       THEN <<viaError("  Error: " \o r.error.s)>>
       ELSE <<viaLog("  Uploading to Gemini (" \o intToString(r.fileSizeKB) \o " KB)"),
              viaLog("  Analyzing with " \o modelName \o "...")>>

\* analyzeAll, lines 873-885: what the loop prints for entry k of n with the
\* record r; result.notes.substring is no function when the notes are a number
documentLines(k, n, r) ==
    <<viaLog("\n[" \o intToString(k) \o "/" \o intToString(n) \o "] Analyzing: " \o r.url)>>
    \o analyzePdfLines(r)
    \o <<viaLog("  Is Form: " \o r.isForm)>>
    \o (IF r.isForm = "Yes"
        THEN <<viaLog("     Type: " \o r.formType.s),
               viaLog("     Sensitive: " \o r.sensitiveInfoSummary)>>
        ELSE <<>>)
    \o (IF Truthy(r.notes) /\ r.notes.t = "string"
        THEN <<viaLog("     Notes: "
                      \o SubSeq(r.notes.s, 1, IF Len(r.notes.s) < 100 THEN Len(r.notes.s) ELSE 100)
                      \o "...")>>
        ELSE <<>>)

\* analyzeAll over the first k entries of list: the records pushed, the lines
\* printed, and whether the loop has thrown
RECURSIVE analyzeAllRuns(_, _)
analyzeAllRuns(list, k) ==
    IF k = 0
    THEN {[results |-> <<>>, lines |-> <<>>, thrown |-> FALSE]}
    ELSE UNION
           { IF run.thrown \/ trim(list[k]) = ""
             THEN {run}
             ELSE { [results |-> Append(run.results, r),
                     lines |-> run.lines \o documentLines(k, Len(list), r),
                     thrown |-> Truthy(r.notes) /\ r.notes.t # "string"] :
                      r \in MainRecords(trim(list[k])) } :
               run \in analyzeAllRuns(list, k - 1) }

\* analyze.ts, lines 1063 and 1093: analyzeAll returns the records, or rejects
\* and main().catch(console.error) prints the error, an object that
\* JSON.stringify turns into {}
MainBatch ==
    /\ pc = "batch"
    /\ mode = "analyze"
    /\ \E run \in analyzeAllRuns(urls, Len(urls)) :
         IF run.thrown
         THEN /\ pc' = "rejected"
              /\ Console(run.lines \o <<viaError("{}")>>)
              /\ UNCHANGED results
         ELSE /\ pc' = "reports"
              /\ Console(run.lines)
              /\ results' = run.results
    /\ UNCHANGED <<urls, args, customPrompt, exitCode, transcript, reports, mainFrame>>

\* analyze.ts, lines 1071-1072: writeResultsCsv and writeResultsJson
MainWriteReports ==
    /\ pc = "reports"
    /\ reports' = analysisReports(results)
    /\ Console(<<viaLog("\nResults written to: results.csv"),
                 viaLog("JSON results written to: results.json")>>)
    /\ pc' = "summary"
    /\ UNCHANGED <<urls, args, customPrompt, exitCode, transcript, results, mainFrame>>

\* results.filter(r => any of the five flags).length
withSensitive(rs) ==
    Cardinality({k \in DOMAIN rs :
                   \/ rs[k].sensitiveInfo.ssn
                   \/ rs[k].sensitiveInfo.driversLicense
                   \/ rs[k].sensitiveInfo.financial
                   \/ rs[k].sensitiveInfo.health
                   \/ rs[k].sensitiveInfo.criminalHistory})

\* analyze.ts, lines 1075-1088
summaryLines ==
    <<viaLog("\nSummary:"),
      viaLog("   Total analyzed: " \o intToString(Len(results))),
      viaLog("   Forms found: "
             \o intToString(Cardinality({k \in DOMAIN results : results[k].isForm = "Yes"}))),
      viaLog("   Errors: "
             \o intToString(Cardinality({k \in DOMAIN results : Truthy(results[k].error)}))),
      viaLog("   Forms with sensitive info: " \o intToString(withSensitive(results)))>>

\* analyze.ts, lines 1075-1090: the summary, then writeLogFile, whose own
\* message goes through originalLog
MainSummary ==
    /\ pc = "summary"
    /\ Console(summaryLines \o <<viaOriginalLog("Log written to: results.txt")>>)
    /\ transcript' = [written |-> TRUE, lines |-> logBuffer']
    /\ pc' = "finished"
    /\ UNCHANGED <<urls, args, customPrompt, exitCode, results, reports, mainFrame>>

NextMain ==
    \/ MainCheckApiKey
    \/ MainParsePrompt
    \/ MainChooseUrls
    \/ MainEvalInput
    \/ MainBatch
    \/ MainWriteReports
    \/ MainSummary

SpecMain == InitMain /\ [][NextMain]_vars

(***************************************************************************)
(* Properties.  Those about the batch are stated of Spec, those about the  *)
(* normalizers of SpecNormalizer, those about the comparison, the report   *)
(* rows and the input list of SpecHelpers, those about the start-up of     *)
(* SpecMain.                                                               *)
(***************************************************************************)

\* the records the running script has produced so far
Produced == IF mode = "analyze" THEN results ELSE comparisons

ProducedUrls == [k \in DOMAIN Produced |-> Produced[k].url]

\* the URLs the batch owes a record: the entries that are not blank, trimmed
ExpectedUrls ==
    IF mode = "analyze"
    THEN LET kept == SelectSeq(urls, LAMBDA u : trim(u) # "")
         IN  [k \in DOMAIN kept |-> trim(kept[k])]
    ELSE [k \in DOMAIN humanReviews |-> humanReviews[k].url]

\* the number of entries before index k (0-based) that the loop does not skip
DocumentsBefore(k) ==
    IF mode = "analyze" THEN Cardinality({j \in 1..k : trim(urls[j]) # ""}) ELSE k

\* the steps that fail before uploadPdfFromUrl has returned
UploadSteps == {"fetch", "status", "arrayBuffer", "upload", "get", "state"}

\* the value isForm is initialised with, by script
ErrorSentinel == IF mode = "analyze" THEN "" ELSE "Error"

\* the keywords of the form-type rules
FormTypeKeywords ==
    {"fillable", "pdf", "google", "airtable", "office", "excel", "word", "phone",
     "email", "digital", "printable"}

\* a raw text no keyword rule and no not-applicable rule recognises
Unrecognised(text) ==
    LET t == trim(toLowerCase(text))
    IN  /\ t \notin {"", "n/a", "not a form"}
        /\ \A w \in FormTypeKeywords : ~includes(t, w)

\* C1: analyzePdf never throws: no exception escapes it, whatever download,
\* upload, state polling, content generation, reply parsing or deletion did;
\* every failure but that of the deletion ends with the record returned and
\* its error field set, and a failed deletion leaves the error field unset.
C1_AnalyzePdfNeverThrows ==
    /\ uncaught # "analyzePdf"
    /\ failed \notin {"", "delete"} => pc = "returned" /\ result.error.t = "string"
    /\ pc = "returned" /\ failed = "delete" => result.error = Undefined

\* a malformed reply has ended as a returned record with the error set
C1_Witness ==
    /\ pc = "returned"
    /\ failed = "parse"
    /\ result.error = Str("Unexpected token in JSON")
    /\ uncaught = ""

C3_GenerateOnlyForProcessedFile ==
    pc = "generateContent" => file.state \notin {"FAILED", "PROCESSING"}

\* C4: a per-document error never aborts the batch: the loop is never left by
\* an exception, and when it ends there is exactly one record per entry that
\* is non-empty after trimming, in input order.
C4_BatchNeverAborted ==
    /\ pc # "aborted"
    /\ pc = "done" => ProducedUrls = ExpectedUrls

\* C5: at most one document is in flight: a call is pending only for the
\* document at the loop index, and only when the record of every earlier
\* document has been appended.
C5_OneDocumentInFlight ==
    \A k \in inflight :
        /\ k = i
        /\ Len(Produced) = DocumentsBefore(k)

\* the generate call of the second document is pending, the first record is in
C5_Witness ==
    /\ pc = "generateContent"
    /\ inflight = {1}
    /\ Len(Produced) = 1
    /\ calls["generateContent"] = 1

\* C6: normalizeResponse is total: for every parsed JSON value (null, an
\* array, a formType that is no string, a null or missing sensitiveInfo) it
\* returns a fragment and throws nothing.
C6_NormalizeResponseTotal ==
    pc = "called" /\ fn \in {"normalizeResponse", "evalNormalizeResponse"} =>
        ret.err = ""

\* C7 as stated: in every record analyzePdf returns, in either script, formType
\* is a string of the canonical vocabulary; an empty raw type gives N/A and
\* unrecognised text gives Unknown.
C7_FormTypeCanonicalInBothModes ==
    pc = "returned" =>
        /\ result.formType.t = "string"
        /\ result.formType.s \in CanonicalFormTypes
        /\ result.error = Undefined /\ ~Truthy(parsed.formType) =>
               result.formType = Str("N/A")
        /\ result.error = Undefined /\ parsed.formType.t = "string"
             /\ Unrecognised(parsed.formType.s) => result.formType = Str("Unknown")

\* C7, amended: in every record the analysis script's analyzePdf returns,
\* formType is a string of the canonical vocabulary, N/A for an empty raw type
\* and Unknown for unrecognised text; a record of the evaluation script holds
\* N/A for an empty raw type and the oracle's value as it came otherwise.
C7_FormTypeCanonicalInAnalysis ==
    pc = "returned" =>
        /\ mode = "analyze" =>
            /\ result.formType.t = "string"
            /\ result.formType.s \in CanonicalFormTypes
            /\ result.error = Undefined /\ ~Truthy(parsed.formType) =>
                   result.formType = Str("N/A")
            /\ result.error = Undefined /\ parsed.formType.t = "string"
                 /\ Unrecognised(parsed.formType.s) => result.formType = Str("Unknown")
        /\ mode = "eval" =>
            /\ result.error # Undefined \/ ~Truthy(parsed.formType) =>
                   result.formType = Str("N/A")
            /\ result.error = Undefined /\ Truthy(parsed.formType) =>
                   result.formType = parsed.formType

\* the analysis script has stored Unknown for a text no rule recognises
C7_Witness ==
    /\ mode = "analyze"
    /\ pc = "returned"
    /\ result.error = Undefined
    /\ parsed.formType = Str("custom survey")
    /\ result.formType = Str("Unknown")

\* C8: normalizeFormType is idempotent on the canonical vocabulary: each
\* canonical form type normalises to itself.
C8_CanonicalTypesAreFixedPoints ==
    pc = "called" /\ fn = "normalizeFormType" /\ arg.t = "string"
      /\ arg.s \in CanonicalFormTypes => ret = Returned(arg.s)

\* C9: for every raw string whose lower-cased text contains "fillable" and
\* "pdf", normalizeFormType returns Fillable PDF, whichever other keywords the
\* text holds: the rule is tried before every other rule.
C9_FillablePdfRuleFirst ==
    pc = "called" /\ fn = "normalizeFormType" /\ arg.t = "string"
      /\ includes(toLowerCase(arg.s), "fillable") /\ includes(toLowerCase(arg.s), "pdf")
      => ret = Returned("Fillable PDF")

\* a text that the non-fillable rule would match as well
C9_Witness ==
    /\ pc = "called"
    /\ fn = "normalizeFormType"
    /\ arg = Str("nonfillable pdf")
    /\ ret = Returned("Fillable PDF")

\* C10: normalizeResponse, when it returns, gives isForm Yes exactly when the
\* parsed isForm is the string "Yes"; every other value ("yes", true, an absent
\* field) gives No, and the error sentinel is never given.
C10_IsFormExactMatch ==
    pc = "called" /\ fn \in {"normalizeResponse", "evalNormalizeResponse"}
      /\ ret.err = "" =>
        /\ ret.v.isForm \in {"Yes", "No"}
        /\ ret.v.isForm = "Yes" <=> arg.isForm = Str("Yes")

\* a lower-case "yes" has been normalised to No
C10_Witness ==
    /\ pc = "called"
    /\ fn = "normalizeResponse"
    /\ ret.err = ""
    /\ arg.isForm = Str("yes")
    /\ ret.v.isForm = "No"

\* C11: in every record analyzePdf returns, normalised or error, each of the
\* five sensitivity flags is present and a boolean; a flag is true only when
\* the reply parsed, no step failed and the nested field of the reply is
\* truthy (and then it is true); a reply without a sensitiveInfo object, or
\* with a null one, gives all five false.
C11_FlagsAreBooleans ==
    pc = "returned" =>
        /\ DOMAIN result.sensitiveInfo = FlagNames
        /\ \A f \in FlagNames :
             /\ result.sensitiveInfo[f] \in BOOLEAN
             /\ result.sensitiveInfo[f] <=>
                  /\ result.error = Undefined
                  /\ parsed.sensitiveInfo.t \notin {"undefined", "null"}
                  /\ Truthy(parsed.sensitiveInfo[f])
        /\ parsed.sensitiveInfo.t \in {"undefined", "null"} => result.sensitiveInfo = NoFlags

\* a reply with a truthy text, a zero and a null among its flags was normalised
C11_Witness ==
    /\ pc = "returned"
    /\ result.error = Undefined
    /\ parsed.sensitiveInfo.financial = Str("yes")
    /\ parsed.sensitiveInfo.driversLicense = Num(0)
    /\ result.sensitiveInfo.financial
    /\ ~result.sensitiveInfo.driversLicense
    /\ ~result.sensitiveInfo.health

\* C12: in every fragment normalizeResponse returns, confidence lies in [0,1]
\* (0 to 100 hundredths) and pageCount is an integer >= 0 (a non-negative
\* multiple of 100 hundredths), whatever numbers the reply holds.
C12_ConfidenceAndPageCountInRange ==
    pc = "called" /\ fn = "normalizeResponse" /\ ret.err = "" =>
        /\ ret.v.confidence \in 0..100
        /\ ret.v.pageCount >= 0
        /\ ret.v.pageCount % 100 = 0

\* C13: compare, when it returns, sets formTypeMatch to true exactly when the
\* two form types are equal without regard to case after each side went
\* through the comparator's normalizeFormType, or when the human isForm is
\* "no" in any case and the machine isForm is No, whatever the form types are.
C13_FormTypeMatchRule ==
    pc = "called" /\ fn = "compare" /\ ret.err = "" =>
        (ret.v.formTypeMatch <=>
            \/ toLowerCase(evalNormalizeFormType(Str(arg.human.formType)).v)
                 = toLowerCase(evalNormalizeFormType(arg.llm.formType).v)
            \/ toLowerCase(arg.human.isForm) = "no" /\ arg.llm.isForm = "No")

\* both sides say "no form" and the form types differ: the match is true
C13_Witness ==
    /\ pc = "called"
    /\ fn = "compare"
    /\ arg.human.isForm = "NO"
    /\ arg.human.formType = "Google form"
    /\ arg.llm.isForm = "No"
    /\ arg.llm.formType = Str("custom survey")
    /\ ret.err = ""
    /\ ret.v.formTypeMatch

\* C14: sensitiveMatch follows three tiers in order, on the texts without
\* regard to case: a human text that is empty or "no" matches iff the machine
\* summary is empty or "no"; otherwise a human text that is "yes" or contains
\* "ssn" or "dl" matches iff the machine summary is neither empty nor "no";
\* otherwise the two match iff they are equal.  Human "Yes" matches machine
\* "SSN, Financial" and not an empty summary, and empty matches empty.
C14_SensitiveMatchTiers ==
    /\ pc = "called" /\ fn = "normalizeSensitiveForComparison" =>
        LET h == toLowerCase(arg.human)
            m == toLowerCase(arg.llm)
        IN  ret = IF h \in {"", "no"} THEN m \in {"", "no"}
                  ELSE IF h = "yes" \/ includes(h, "ssn") \/ includes(h, "dl")
                       THEN m \notin {"", "no"}
                       ELSE h = m
    /\ pc = "called" /\ fn = "normalizeSensitiveForComparison" /\ arg.human = "Yes" =>
        /\ arg.llm = "SSN, Financial" => ret = TRUE
        /\ arg.llm = "" => ret = FALSE
    /\ pc = "called" /\ fn = "normalizeSensitiveForComparison" /\ arg.human = ""
         /\ arg.llm = "" => ret = TRUE

\* an item list of the reviewer met a different item list of the machine
C14_Witness ==
    /\ pc = "called"
    /\ fn = "normalizeSensitiveForComparison"
    /\ arg.human = "ssn and dl#"
    /\ arg.llm = "SSN, Financial"
    /\ ret = TRUE

\* C15: escapeField is reversible: reading the escaped field back as a CSV
\* field gives the original text, for every text, with or without a comma, a
\* double quote, a line feed or a carriage return; a text with none of them
\* is returned unchanged.
C15_EscapeFieldReversible ==
    pc = "called" /\ fn = "escapeField" =>
        /\ csvUnescape(ret) = Returned(arg)
        /\ (\A c \in {",", Quote, "\n", "\r"} : ~includes(arg, c)) => ret = arg

\* a text holding a quote and a comma was escaped and reads back
C15_Witness ==
    /\ pc = "called"
    /\ fn = "escapeField"
    /\ arg = "a" \o Quote \o ","
    /\ ret = Quote \o "a" \o Quote \o Quote \o "," \o Quote
    /\ csvUnescape(ret) = Returned(arg)

\* C16: every data row of the two delimited reports reads back as exactly as
\* many fields as the header row: 18 in the analysis report, 14 in the
\* comparison report, whatever commas, quotes and line breaks the texts hold.
C16_RowsHaveHeaderFieldCount ==
    /\ pc = "called" /\ fn = "analysisRow" =>
           /\ csvFieldCount(analysisHeaderLine) = 18
           /\ csvFieldCount(ret) = 18
    /\ pc = "called" /\ fn = "comparisonRow" =>
           /\ csvFieldCount(comparisonHeaderLine) = 14
           /\ csvFieldCount(ret) = 14

\* C18: for a line file (.txt) readUrlsFromFile returns exactly the trimmed
\* lines that are not blank and do not start with "#", each once, in the
\* order in which they first appear.  A line is a longest stretch of the
\* content without a line feed; it is named here by the positions of its
\* first character and of the character after its last.
C18_LineFileUrls ==
    pc = "called" /\ fn = "readUrlsFromFile" /\ arg.path = "urls.txt" =>
        LET c == arg.content
            n == Len(c)
            starts == {1} \cup {k + 1 : k \in {k \in 1..n : CharAt(c, k) = "\n"}}
            stop(a) == IF \E b \in a..n : CharAt(c, b) = "\n"
                       THEN CHOOSE b \in a..n :
                               /\ CharAt(c, b) = "\n"
                               /\ \A j \in a..(b - 1) : CharAt(c, j) # "\n"
                       ELSE n + 1
            text(a) == trim(SubSeq(c, a, stop(a) - 1))
            kept == {a \in starts : text(a) # "" /\ SubSeq(text(a), 1, 1) # "#"}
            first(u) == CHOOSE a \in kept :
                            text(a) = u /\ \A o \in kept : text(o) = u => a <= o
        IN  /\ {ret[k] : k \in DOMAIN ret} = {text(a) : a \in kept}
            /\ \A j, k \in DOMAIN ret : j # k => ret[j] # ret[k]
            /\ \A j, k \in DOMAIN ret : j < k => first(ret[j]) < first(ret[k])

\* the line file of the spec's scenario gives its two URLs in order, and a
\* file that repeats a line around a comment gives the line once
C18_Witness ==
    /\ pc = "called" /\ fn = "readUrlsFromFile" /\ arg.path = "urls.txt"
    /\ \/ arg.content = SpecLineFile
          /\ ret = <<"https://x.test/a.pdf", "https://x.test/b.pdf">>
       \/ arg.content = "a.pdf\n#\na.pdf" /\ ret = <<"a.pdf">>

\* C17: a configuration error is fatal before any batch work: when the API
\* key is missing, or --prompt names a file that does not exist or comes
\* without a usable path, main never reaches the batch and the process exits
\* with a nonzero code.
C17_ConfigErrorIsFatal ==
    LET k == argIndexOf(env.argv, "--prompt")
        badPrompt == /\ mode = "analyze"
                     /\ k # 0
                     /\ \/ k = Len(env.argv)
                        \/ env.argv[k + 1] \notin env.files
    IN  env.apiKey = "" \/ badPrompt =>
            /\ pc \notin {"batch", "reviews"}
            /\ pc = "exit" => exitCode # 0

\* C19: when some documents fail, the CSV and JSON reports are still written
\* after the batch: once the analysis run is over and a document has failed,
\* both reports exist and hold one entry for every document that was
\* processed, and the summary's error count is the number of records that
\* carry an error.
C19_ReportsWrittenDespiteFailures ==
    /\ mode = "analyze"
    /\ pc \in {"reported", "aborted"}
    /\ \/ failed # ""
       \/ \E k \in DOMAIN results : Truthy(results[k].error)
    => /\ reports.written
       /\ Len(reports.csv) = DocumentsBefore(IF pc = "aborted" THEN i + 1 ELSE i)
       /\ Len(reports.json) = Len(reports.csv)
       /\ reports.errors = Cardinality({k \in DOMAIN results : Truthy(results[k].error)})

\* C20: a failure of the cleanup delete never surfaces.  When the delete call
\* rejects, analyzePdf returns the record it held before the call, with no
\* error and with nothing but the processing time set, which is the record it
\* returns when the delete succeeds; appending that record leaves the number
\* of records with an error as it was, and that number is the error count of
\* the summary.
C20_DeleteFailureNeverSurfaces ==
    [][LET errorCount(rs) == Cardinality({k \in DOMAIN rs : Truthy(rs[k].error)})
           timeless(r) == IF mode = "analyze" THEN [r EXCEPT !.processingTimeSec = 0]
                          ELSE r
       IN  /\ pc = "delete" /\ failed' = "delete" =>
                  /\ pc' = "returned"
                  /\ result'.error = Undefined
                  /\ timeless(result') = timeless(result)
           /\ pc = "returned" /\ failed = "delete" =>
                  errorCount(results') = errorCount(results)
           /\ pc' = "reported" /\ mode = "analyze" =>
                  reports'.errors = errorCount(results')]_vars

\* the delete call has rejected after a reply that parsed as a form: the
\* record returned says "Yes" and carries no error
C20_Witness ==
    /\ pc = "returned"
    /\ failed = "delete"
    /\ result.isForm = "Yes"
    /\ result.error = Undefined

\* C21: the state-polling loop always terminates.  After the initial state
\* query at most 30 further queries are sent, whatever states the oracle
\* reports, and once the upload has been made uploadPdfFromUrl leaves the loop:
\* it returns to analyzePdf or throws.
C21_PollingTerminates ==
    /\ [](/\ attempts <= 30
          /\ pc = "poll" => attempts < 30)
    /\ (pc = "get" ~> pc \notin {"get", "sleep", "poll"})

\* the oracle has answered PROCESSING to the initial query and to each of the
\* 30 further ones, and uploadPdfFromUrl has returned the file in that state
C21_Witness ==
    /\ pc = "generateContent"
    /\ file.state = "PROCESSING"

\* C22: whenever analyzePdf has uploaded a file to the oracle, a delete of
\* that file has been attempted by the time analyzePdf returns, on every
\* path: after a FAILED state, after a file without URI or MIME type, after a
\* failed generation and after a reply that cannot be parsed.
C22_DeleteAttemptedAfterUpload ==
    /\ pc = "returned"
    /\ calls["upload"] = 1
    /\ failed \notin {"fetch", "status", "arrayBuffer", "upload"}
    => calls["delete"] = 1

\* the first top-level brace-delimited span of a text, "" when there is none:
\* from the first opening brace to the first position at which as many
\* braces have been closed as opened
firstBraceSpan(text) ==
    LET a == indexOfFrom(text, "{", 1)
        opened(b) == Cardinality({j \in a..b : CharAt(text, j) = "{"})
        closed(b) == Cardinality({j \in a..b : CharAt(text, j) = "}"})
        balanced == IF a = 0 THEN {} ELSE {b \in a..Len(text) : opened(b) = closed(b)}
    IN  IF balanced = {} THEN ""
        ELSE SubSeq(text, a, CHOOSE b \in balanced : \A o \in balanced : b <= o)

\* C23: reply parsing takes the fenced json block when there is one and scans
\* for braces only when there is none; the scan selects the first top-level
\* brace-delimited span, so a reply without fence whose first such span is a
\* well-formed JSON document parses without error, also when further
\* brace-delimited text follows.
C23_FenceFirstThenFirstBraceSpan ==
    pc = "called" /\ fn = "extractJson" =>
        IF includes(arg, FenceOpen) /\ fencedJson(arg).found
        THEN ret = JSONparse(fencedJson(arg).group)
        ELSE \A d \in JsonDocuments :
                firstBraceSpan(arg) = d.text => ret = Returned(d.value)

\* C24: no operation is retried.  For each entry of the list at most one
\* download request, one upload, one content-generation call and one delete
\* are sent, whatever fails: once a step of the document has failed no further
\* call is sent for it, and the loop never goes back to an entry it has left.
\* The state query of the polling loop is the only call that is repeated.
C24_NoOperationRetried ==
    [][/\ \A k \in CallKinds : calls'[k] <= 1
       /\ failed # "" => calls' \in {calls, NoCalls}
       /\ i' \in {i, i + 1}]_vars

\* content generation has failed after one download and one upload, and
\* analyzePdf has returned without sending any of the calls again
C24_Witness ==
    /\ pc = "returned"
    /\ failed = "generateContent"
    /\ calls = [fetch |-> 1, upload |-> 1, generateContent |-> 1, delete |-> 0]

\* C25: between two successive documents the one-second delay elapses after
\* the first one's record is appended and before the second one's download
\* starts, whatever empty entries the list holds, and no delay follows the
\* last entry.  Step by step: appending a record starts the delay exactly when
\* an entry follows; while the delay runs nothing is sent and the loop goes
\* to the next entry only when it has elapsed; a download starts only from
\* the head of the loop.
C25_DelayBetweenDocuments ==
    [][LET appended == \/ Len(results') = Len(results) + 1
                       \/ Len(comparisons') = Len(comparisons) + 1
       IN  /\ appended /\ pc' # "aborted" =>
                  IF i < Len(Inputs) - 1
                  THEN pc' = "delay" /\ i' = i
                  ELSE pc' = "loop" /\ i' = Len(Inputs)
           /\ pc = "delay" =>
                  /\ pc' = "loop" /\ i' = i + 1
                  /\ calls' = calls /\ inflight' = inflight
           /\ pc' = "delay" => appended /\ i < Len(Inputs) - 1
           /\ pc' = "fetch" => pc = "loop" /\ ~appended]_vars

\* the download of the second document of a list with an empty entry in
\* between has started: the first record was appended, the delay has elapsed
\* and the empty entry was skipped
C25_Witness ==
    /\ urls = GappedList
    /\ pc = "fetch"
    /\ i = 2
    /\ Len(results) = 1

\* the lines a step adds to the terminal history
newlyPrinted == SubSeq(printed', Len(printed) + 1, Len(printed'))

\* C26: in a run of analyze.ts every step leaves the messages already in the
\* log buffer in place and appends to them exactly the lines the step prints
\* through console.log and console.error, in order; the transcript is written
\* by the step that follows the writing of the CSV and JSON reports of a
\* completed batch and holds the buffer of that moment; and no transcript
\* exists when the run has ended in process.exit or in a rejected analyzeAll.
C26_LogBufferAndTranscript ==
    [][mode = "analyze" =>
         /\ Len(logBuffer') >= Len(logBuffer)
         /\ SubSeq(logBuffer', 1, Len(logBuffer)) = logBuffer
         /\ SubSeq(logBuffer', Len(logBuffer) + 1, Len(logBuffer'))
              = messagesOf(SelectSeq(newlyPrinted,
                                     LAMBDA line : line.via \in {"console.log", "console.error"}))
         /\ transcript' # transcript =>
              /\ ~transcript.written
              /\ reports.written
              /\ reports.total = Len(results)
              /\ pc = "summary"
              /\ transcript' = [written |-> TRUE, lines |-> logBuffer']
         /\ pc' \in {"exit", "rejected"} => ~transcript'.written]_vars

\* C26 witness: a finished run of analyze.ts whose transcript holds a line
\* printed through console.error, after the reports were written
C26_Witness ==
    /\ mode = "analyze"
    /\ pc = "finished"
    /\ reports.written
    /\ transcript.written
    /\ transcript.lines = logBuffer
    /\ \E k \in DOMAIN printed :
         /\ printed[k].via = "console.error"
         /\ \E j \in DOMAIN transcript.lines : transcript.lines[j] = printed[k].message

\* C27: when normalizeResponse returns, its confidence is the parsed
\* confidence if that is a number (zero and negative numbers included) and
\* 0.5 otherwise, its pageCount is the parsed pageCount if that is a number
\* and 0 otherwise; so both fields always hold a number.
C27_NumericDefaults ==
    (pc = "called" /\ fn = "normalizeResponse" /\ ret.err = "") =>
        /\ ret.v.confidence = IF arg.confidence.t = "number" THEN arg.confidence.n
                              ELSE DefaultConfidence
        /\ ret.v.pageCount = IF arg.pageCount.t = "number" THEN arg.pageCount.n
                             ELSE DefaultPageCount
        /\ ret.v.confidence \in Int
        /\ ret.v.pageCount \in Int

\* C27 witness: a parsed confidence of zero is copied while a null page
\* count is replaced by the default
C27_Witness ==
    /\ pc = "called"
    /\ fn = "normalizeResponse"
    /\ ret.err = ""
    /\ arg.confidence = Num(0)
    /\ arg.pageCount = Null
    /\ ret.v.confidence = 0
    /\ ret.v.pageCount = DefaultPageCount

\* C28: the comparator tells Fillable PDF from Non-Fillable PDF.  Its
\* normalizeFormType gives "Non-Fillable PDF" for a form type whose text
\* contains "non-fillable" or "nonfillable", and when both sides say the
\* document is a form, one with the type "Fillable PDF" and the other with
\* "Non-Fillable PDF", formTypeMatch is false.
C28_FillableToldFromNonFillable ==
    (pc = "called" /\ fn = "compare" /\ ret.err = "") =>
        /\ \A type \in {arg.human.formType, arg.llm.formType.s} :
              (\/ includes(toLowerCase(type), "non-fillable")
               \/ includes(toLowerCase(type), "nonfillable"))
                 => evalNormalizeFormType(Str(type)).v = "Non-Fillable PDF"
        /\ (/\ toLowerCase(arg.human.isForm) = "yes"
            /\ arg.llm.isForm = "Yes"
            /\ {arg.human.formType, arg.llm.formType.s} = {"Fillable PDF", "Non-Fillable PDF"})
               => ~ret.v.formTypeMatch

\* C29: in the analysis CSV the reviewer column about sensitive information
\* (the fourth field of a row) is "Yes" for a record exactly when at least one
\* of its five sensitivity flags is true, and so it is "No" for every error
\* record.
C29_SensitiveColumnFollowsFlags ==
    (mode = "analyze" /\ reports.written) =>
        \A k \in DOMAIN reports.json :
            LET r == reports.json[k]
                row == analysisRow(r)
            IN  /\ reports.csv[k] = joinFields(row)
                /\ row[4] = "Yes" <=> anyFlag(r.sensitiveInfo)
                /\ Truthy(r.error) => row[4] = "No"

\* C30: in evaluation mode a machine record that carries an error never
\* counts as a full match.  For such a record and every human record whose
\* isForm is "Yes", "No" or empty, in any case, compare returns isFormMatch
\* false and allMatch false, whatever the form-type and sensitivity texts of
\* the review are.
C30_ErrorRecordNeverFullMatch ==
    (/\ pc = "called"
     /\ fn = "compare"
     /\ Truthy(arg.llm.error)
     /\ toLowerCase(arg.human.isForm) \in {"yes", "no", ""}) =>
        ret.err = "" /\ ~ret.v.isFormMatch /\ ~ret.v.allMatch

\* C30 witness: an error record compared with a review whose isForm is empty
\* and whose form type and sensitivity agree with the record's defaults
C30_Witness ==
    /\ pc = "called"
    /\ fn = "compare"
    /\ Truthy(arg.llm.error)
    /\ arg.llm.isForm = "Error"
    /\ arg.human.isForm = ""
    /\ ret.v.formTypeMatch
    /\ ret.v.sensitiveMatch
    /\ ~ret.v.allMatch
====
